---- MODULE Spec2Model ----
(***************************************************************************)
(* Safe mutation and iterative repair engine of automated_devops_agent.    *)
(*                                                                         *)
(*   tools.py      attempt_autonomous_fix, run_pytest, write_code_file,    *)
(*                 aggregate_reports                                       *)
(*   pipelines.py  RefactoringPipeline, IterativeDebugger                  *)
(*                                                                         *)
(* The file system is the shared state: the target file, the artifact      *)
(* target + '.bak' of attempt_autonomous_fix and the artifact              *)
(* target + '.backup' of RefactoringPipeline and write_code_file.          *)
(* Text is modelled by TLA+ strings, and lower(), 'in' and split('\n')     *)
(* are computed character by character as Python computes them.            *)
(*                                                                         *)
(* Fault model.  A call may meet one unexpected exception at one of the    *)
(* points named by the fault inputs below (between two file operations),   *)
(* and the write of the proposed content may fail before or after the      *)
(* file was truncated.  The file operations of the handlers themselves     *)
(* (copy from the backup, removal of the backup) are taken to succeed.     *)
(***************************************************************************)
EXTENDS Integers, Sequences, FiniteSets, TLC

VARIABLES fs, fix, hist, pipe, wcf, dbg, calc

vars == <<fs, fix, hist, pipe, wcf, dbg, calc>>

(***************************************************************************)
(* Bounds of the model.                                                    *)
(***************************************************************************)
\* file contents are 0 (the empty file) and 1..MaxContent
MaxContent == 3

Absent == -1
Empty == 0
Contents == Empty..MaxContent
Proposals == 1..MaxContent

\* the file of content c has 50 c lines of 32 characters
LinesOfCode(c) == 50 * c
FileSize(c) == 1600 * c

TARGET == "target"
BAK == "target.bak"
BACKUP == "target.backup"
\* the file of the same name in the directory next to the project directory
\* whose name extends the project directory's, and one in another tree
SIBLING == "../src-old/target"
OUTSIDE == "/tmp/target"

\* requested_path + '.backup'
BackupOf(file) == file \o ".backup"

Files == {TARGET, BAK, BACKUP, SIBLING, BackupOf(SIBLING), OUTSIDE, BackupOf(OUTSIDE)}

Procs == {1, 2}

\* the pure function under evaluation, its arguments and its value
IdleCalc == [pc |-> "idle", fn |-> "none", in |-> <<>>, out |-> <<>>]

(***************************************************************************)
(* Text: Python's str.lower, 'in' and the markers of the tool outputs.     *)
(***************************************************************************)
UpperAlpha == "ABCDEFGHIJKLMNOPQRSTUVWXYZ"
LowerAlpha == "abcdefghijklmnopqrstuvwxyz"

\* U+2705 and U+274C, the marks run_pytest puts on its summary line
CHECK == "[U+2705]"
CROSS == "[U+274C]"

\* U+1F389, U+1F504, U+1F4A1 and U+1F6A8, the marks of the result messages
PARTY == "[U+1F389]"
CYCLE == "[U+1F504]"
BULB == "[U+1F4A1]"
SIREN == "[U+1F6A8]"

\* the three characters U+00E2 U+0153 U+2026 that pipelines.py holds where a
\* check mark was meant
MOJIBAKE == "[U+00E2][U+0153][U+2026]"

\* Body at the value v, with v worked out once
Bind(v, Body(_)) == CHOOSE r \in {Body(x) : x \in {v}} : TRUE

LowerChar(c) ==
    IF \E i \in 1..26 : SubSeq(UpperAlpha, i, i) = c
    THEN LET i == CHOOSE j \in 1..26 : SubSeq(UpperAlpha, j, j) = c
         IN  SubSeq(LowerAlpha, i, i)
    ELSE c

RECURSIVE lower(_)
lower(s) ==
    IF Len(s) <= 1 THEN LowerChar(s)
    ELSE LET h == Len(s) \div 2
         IN  lower(SubSeq(s, 1, h)) \o lower(SubSeq(s, h + 1, Len(s)))

\* needle in hay
Contains(hay, needle) ==
    \E i \in 1..(Len(hay) - Len(needle) + 1) :
        SubSeq(hay, i, i + Len(needle) - 1) = needle

Digits == "0123456789"

\* str(n) of a natural number
RECURSIVE ToStr(_)
ToStr(n) ==
    IF n < 10 THEN SubSeq(Digits, n + 1, n + 1)
    ELSE ToStr(n \div 10) \o SubSeq(Digits, (n % 10) + 1, (n % 10) + 1)

(***************************************************************************)
(* run_pytest (tools.py): one execution of the external runner.            *)
(***************************************************************************)
TestFile == "tests/demo/test_login.py"

\* what subprocess.run does: the runner finishes with an exit status and
\* its output, exceeds the timeout, is not installed, or fails otherwise
PytestRuns ==
    { [kind |-> "ran", rc |-> 0,
       stdout |-> "test_login.py::test_ok PASSED\n1 passed in 0.01s", stderr |-> ""],
      [kind |-> "ran", rc |-> 0,
       stdout |-> "test_a PASSED\ntest_b XFAIL\n1 passed, 1 xfailed in 0.02s", stderr |-> ""],
      [kind |-> "ran", rc |-> 1,
       stdout |-> "test_ok FAILED\nE   AssertionError: assert 500 == 200\n1 failed in 0.02s",
       stderr |-> ""],
      [kind |-> "ran", rc |-> 1,
       stdout |-> "test_a PASSED\ntest_b FAILED\nE   TypeError: bad operand\n1 failed, 1 passed in 0.03s",
       stderr |-> ""],
      [kind |-> "ran", rc |-> 2,
       stdout |-> "", stderr |-> "ImportError while importing test module"],
      [kind |-> "ran", rc |-> 5,
       stdout |-> "no tests ran in 0.00s", stderr |-> ""],
      [kind |-> "timeout", rc |-> Absent, stdout |-> "", stderr |-> ""],
      [kind |-> "notfound", rc |-> Absent, stdout |-> "", stderr |-> ""],
      [kind |-> "error", rc |-> Absent, stdout |-> "",
       stderr |-> "[Errno 13] Permission denied: 'pytest'"] }

PytestSummary(rc) ==
    IF rc = 0
    THEN "\n" \o CHECK \o " All tests passed!"
    ELSE "\n" \o CROSS \o " Tests failed (exit code: " \o ToStr(rc) \o ")"

run_pytest(file, run) ==
    CASE run.kind = "ran" ->
           "===== PYTEST EXECUTION =====\n"
           \o "Command: pytest " \o file \o " -v --tb=short\n"
           \o "Exit Code: " \o ToStr(run.rc) \o "\n\n"
           \o (IF run.stdout # "" THEN "===== STDOUT =====\n" \o run.stdout \o "\n" ELSE "")
           \o (IF run.stderr # "" THEN "===== STDERR =====\n" \o run.stderr \o "\n" ELSE "")
           \o PytestSummary(run.rc)
      [] run.kind = "timeout" ->
           "Error: pytest execution timed out after 120 seconds"
      [] run.kind = "notfound" ->
           "Error: pytest not found. Install with: pip install pytest>=7.0.0"
      [] OTHER ->
           "Error running pytest: " \o run.stderr

(***************************************************************************)
(* File operations.                                                        *)
(***************************************************************************)
Exists(f, name) == f[name] # Absent

\* shutil.copy2(src, dst), for an existing src
CopyFile(f, src, dst) == [f EXCEPT ![dst] = f[src]]

\* os.remove(name) / Path.unlink()
RemoveFile(f, name) == [f EXCEPT ![name] = Absent]

\* shutil.move(src, dst)
MoveFile(f, src, dst) == [f EXCEPT ![dst] = f[src], ![src] = Absent]

\* open(name, 'w').write(content), completed
WriteFile(f, name, content) == [f EXCEPT ![name] = content]

\* the outcomes of open(name, 'w') and f.write(content): "ok", or an exception
\* raised by open before the file was touched ("open"), after open emptied
\* the file ("truncated"), after a proper prefix of the content reached the
\* file ("partial"), or after the whole content did ("written")
WriteHows == {"ok", "open", "truncated", "partial", "written"}

\* the prefixes a write of `content` that raises as `how` may leave
Cuts(content, how) == IF how = "partial" THEN 1..(content - 1) ELSE {Empty}

\* the file system after a write of `content` that raised, `cut` being what
\* a partial write left
FailedWrite(f, name, content, how, cut) ==
    CASE how = "truncated" -> [f EXCEPT ![name] = Empty]
      [] how = "partial" -> [f EXCEPT ![name] = cut]
      [] how = "written" -> [f EXCEPT ![name] = content]
      [] OTHER -> f

\* the file system after shutil.copy2(src, dst), for an existing src, raised:
\* copyfile opens dst for writing and copies into it, copystat follows, so
\* dst is untouched ("open"), empty, a proper prefix of src, or all of src
\* ("written", the exception coming from copystat)
FailedCopy(f, src, dst, how, cut) == FailedWrite(f, dst, f[src], how, cut)

\* the outcomes of a copy or write where unexpected exceptions are drawn
\* from Faults
HowsUnder(Faults) == IF TRUE \in Faults THEN WriteHows ELSE {"ok"}

(***************************************************************************)
(* attempt_autonomous_fix (tools.py), one process p per call in flight.    *)
(***************************************************************************)
\* no run of the verifier yet
NoRun == [kind |-> "none", rc |-> Absent, stdout |-> "", stderr |-> ""]

IdleFix ==
    [pc |-> "idle", code |-> Absent, orig |-> Absent, fs0 |-> [n \in Files |-> Absent],
     backup_path |-> FALSE, run |-> NoRun, test_output |-> "",
     result |-> "none", message |-> "", ran |-> 0, wrote |-> "no", raised |-> "none",
     bakAtRaise |-> FALSE, targetAtRaise |-> Absent]

FixResults ==
    {"target_not_found", "test_not_found", "write_failed", "success", "rollback", "critical"}

\* the target_file argument, and os.path.basename of the two arguments
TargetFile == "tests/demo/buggy_login.py"
TargetName == "buggy_login.py"
TestName == "test_login.py"

\* "=" * 70 and "-" * 70
Banner == "======================================================================"
Rule == "----------------------------------------------------------------------"

\* success_msg
SuccessMsg(code, out) ==
    Banner \o "\n" \o CHECK \o " SUCCESS: Autonomous Fix Applied!\n" \o Banner \o "\n"
    \o "Target File: " \o TargetName \o "\n"
    \o "Test File: " \o TestName \o "\n"
    \o "Fix Size: " \o ToStr(FileSize(code)) \o " characters\n"
    \o "\nTest Results:\n" \o Rule \o "\n"
    \o out
    \o "\n" \o Banner \o "\n"
    \o PARTY \o " Code is now fixed and validated!\n" \o Banner \o "\n"

\* failure_msg
FailureMsg(out) ==
    Banner \o "\n" \o CROSS \o " FAILURE: Tests Failed - Automatic Rollback Executed\n"
    \o Banner \o "\n"
    \o "Target File: " \o TargetName \o "\n"
    \o "Test File: " \o TestName \o "\n"
    \o "\n" \o CYCLE \o " Original code has been restored (no changes made)\n"
    \o "\nTest Output (for debugging your next attempt):\n" \o Rule \o "\n"
    \o out
    \o "\n" \o Banner \o "\n"
    \o BULB \o " Analyze the test output above and try a different approach.\n"
    \o Banner \o "\n"

WriteFailedMsg == CROSS \o " ERROR: Failed to write fix: write error"
TargetNotFoundMsg == CROSS \o " ERROR: Target file not found: " \o TargetFile
TestNotFoundMsg == CROSS \o " ERROR: Test file not found: " \o TestFile

\* str(e) of an exception raised from outside the function's own file
\* operations, and of the FileNotFoundError of shutil.copy2 and os.remove
Unexpected == "unexpected error"
NoSuchFile(path) == "[Errno 2] No such file or directory: '" \o path \o "'"

CriticalMsg(error) ==
    SIREN \o " CRITICAL ERROR: " \o error \o "\n"
    \o CYCLE \o " Emergency rollback executed. Original code restored."

\* Step 4: "passed" in test_output.lower() and "failed" not in test_output.lower()
TestsPassedOnlyPassed(out) == Contains(lower(out), "passed")

TestsPassed(out) ==
    Contains(lower(out), "passed") /\ ~Contains(lower(out), "failed")

\* Step 1: backup_path = target_file + ".bak"; shutil.copy2(target_file, backup_path)
CreateBak(f) == CopyFile(f, TARGET, BAK)

\* the restore of the write-failure handler
WriteFailRestoreNoCopy(f) == RemoveFile(f, BAK)

WriteFailRestore(f) == RemoveFile(CopyFile(f, BAK, TARGET), BAK)

\* the SUCCESS branch: os.remove(backup_path)
KeepFix(f) == RemoveFile(f, BAK)

\* the FAILURE branch: copy the backup over the target, remove the backup
Rollback(f) == RemoveFile(CopyFile(f, BAK, TARGET), BAK)

\* the outer except: restore only when backup_path is bound and the file exists
EmergencyRollback(f, bound) ==
    IF bound /\ Exists(f, BAK)
    THEN RemoveFile(CopyFile(f, BAK, TARGET), BAK)
    ELSE f

\* the two os.path.exists checks that open the function
Validate(f, testExists) ==
    IF ~Exists(f, TARGET) THEN "target_not_found"
    ELSE IF ~testExists THEN "test_not_found"
    ELSE "ok"

\* no other call on the target is in flight
Serial(p) == \A q \in Procs \ {p} : fix[q].pc = "idle"

\* the locals of a call that ends in the outer except, raised at `where`
\* with the file system f
Critical(loc, f, where, bound, error) ==
    [loc EXCEPT !.pc = "done", !.result = "critical", !.message = CriticalMsg(error),
                !.raised = where, !.backup_path = bound,
                !.bakAtRaise = bound /\ Exists(f, BAK),
                !.targetAtRaise = f[TARGET]]

\* the call: validation, or an exception before backup_path is bound
FixCall(p, code, testExists, fault) ==
    /\ fix[p].pc = "idle"
    /\ LET loc == [IdleFix EXCEPT !.code = code, !.orig = fs[TARGET], !.fs0 = fs]
           v == Validate(fs, testExists)
       IN  IF v # "ok"
           THEN /\ fix' = [fix EXCEPT ![p] =
                        [loc EXCEPT !.pc = "done", !.result = v,
                                    !.message = IF v = "target_not_found"
                                                THEN TargetNotFoundMsg
                                                ELSE TestNotFoundMsg]]
                /\ fs' = fs
           ELSE IF fault
           THEN /\ fix' = [fix EXCEPT ![p] = Critical(loc, fs, "before_backup", FALSE, Unexpected)]
                /\ fs' = EmergencyRollback(fs, FALSE)
           ELSE /\ fix' = [fix EXCEPT ![p] = [loc EXCEPT !.pc = "backup"]]
                /\ fs' = fs
    /\ UNCHANGED <<dbg, calc>>

\* Step 1, or shutil.copy2 raising: because the target is gone, or as `how`
\* with target.bak left as the copy had made it ("written" is also the print
\* after the copy raising); backup_path is bound in each case
FixBackup(p, how, cut) ==
    /\ fix[p].pc = "backup"
    /\ IF ~Exists(fs, TARGET)
       THEN /\ fix' = [fix EXCEPT ![p] = Critical(fix[p], fs, "backup", TRUE, NoSuchFile(TargetFile))]
            /\ fs' = EmergencyRollback(fs, TRUE)
       ELSE IF how # "ok"
       THEN \E failed \in {FailedCopy(fs, TARGET, BAK, how, cut)} :
            /\ fix' = [fix EXCEPT ![p] =
                          Critical(fix[p], failed,
                                   IF how = "written" THEN "after_backup" ELSE "backup_copy",
                                   TRUE, Unexpected)]
            /\ fs' = EmergencyRollback(failed, TRUE)
       ELSE /\ fix' = [fix EXCEPT ![p].pc = "write", ![p].backup_path = TRUE]
            /\ fs' = CreateBak(fs)
    /\ UNCHANGED <<dbg, calc>>

\* the unexpected exceptions of the except branch of Step 2: its print
HandlerFaults(how, Faults) == IF how = "ok" THEN {FALSE} ELSE Faults

\* Step 2: the write with the print that follows it in the try, and its
\* except branch; `fault` is the print that opens the except branch raising,
\* which takes the call to the outer except
FixWrite(p, how, cut, fault) ==
    /\ fix[p].pc = "write"
    /\ LET failed == FailedWrite(fs, TARGET, fix[p].code, how, cut)
       IN  IF how = "ok"
           THEN /\ fs' = WriteFile(fs, TARGET, fix[p].code)
                /\ fix' = [fix EXCEPT ![p].pc = "test", ![p].wrote = how]
           ELSE IF fault
           THEN /\ fs' = EmergencyRollback(failed, TRUE)
                /\ fix' = [fix EXCEPT ![p] =
                              Critical([fix[p] EXCEPT !.wrote = how], failed,
                                       "write_handler", TRUE, Unexpected)]
           ELSE IF ~Exists(fs, BAK)
           THEN \* the restore itself raises: the outer except finds no backup
                /\ fs' = EmergencyRollback(failed, TRUE)
                /\ fix' = [fix EXCEPT ![p] =
                              Critical([fix[p] EXCEPT !.wrote = how], failed,
                                       "write_restore", TRUE,
                                       NoSuchFile(TargetFile \o ".bak"))]
           ELSE /\ fs' = WriteFailRestore(failed)
                /\ fix' = [fix EXCEPT ![p].pc = "done", ![p].result = "write_failed",
                                      ![p].message = WriteFailedMsg, ![p].wrote = how]
    /\ UNCHANGED <<dbg, calc>>

\* the points of Step 3 where an unexpected exception is raised: the prints
\* before run_pytest is called, the print after it returned
TestFaults(Faults) ==
    IF TRUE \in Faults THEN {"none", "before_test", "after_test"} ELSE {"none"}

\* Step 3: run_pytest(test_file), or an exception before it was called or
\* right after it returned
FixTest(p, run, fault) ==
    /\ fix[p].pc = "test"
    /\ LET out == run_pytest(TestFile, run)
           loc == [fix[p] EXCEPT !.run = run, !.test_output = out, !.ran = @ + 1]
       IN  IF fault = "before_test"
           THEN /\ fix' = [fix EXCEPT ![p] =
                              Critical(fix[p], fs, "before_test", TRUE, Unexpected)]
                /\ fs' = EmergencyRollback(fs, TRUE)
           ELSE IF fault = "after_test"
           THEN /\ fix' = [fix EXCEPT ![p] = Critical(loc, fs, "after_test", TRUE, Unexpected)]
                /\ fs' = EmergencyRollback(fs, TRUE)
           ELSE /\ fix' = [fix EXCEPT ![p] = [loc EXCEPT !.pc = "decide"]]
                /\ fs' = fs
    /\ UNCHANGED <<dbg, calc>>

\* Step 4: keep or roll back; its file operations raise when the backup is
\* gone, and `fault` is an exception raised by the first of them
FixDecide(p, fault) ==
    /\ fix[p].pc = "decide"
    /\ IF ~Exists(fs, BAK)
       THEN /\ fs' = EmergencyRollback(fs, TRUE)
            /\ fix' = [fix EXCEPT ![p] = Critical(fix[p], fs, "decide", TRUE,
                                                  NoSuchFile(TargetFile \o ".bak"))]
       ELSE IF fault
       THEN /\ fs' = EmergencyRollback(fs, TRUE)
            /\ fix' = [fix EXCEPT ![p] = Critical(fix[p], fs, "decide", TRUE, Unexpected)]
       ELSE IF TestsPassed(fix[p].test_output)
       THEN /\ fs' = KeepFix(fs)
            /\ fix' = [fix EXCEPT ![p].pc = "done", ![p].result = "success",
                                  ![p].message = SuccessMsg(fix[p].code, fix[p].test_output)]
       ELSE /\ fs' = Rollback(fs)
            /\ fix' = [fix EXCEPT ![p].pc = "done", ![p].result = "rollback",
                                  ![p].message = FailureMsg(fix[p].test_output)]
    /\ UNCHANGED <<dbg, calc>>

\* the steps of process p, with the unexpected exceptions drawn from Faults
FixStep(p, Faults) ==
    \/ \E code \in Proposals, testExists \in BOOLEAN, fault \in Faults :
          Serial(p) /\ FixCall(p, code, testExists, fault)
    \/ \E how \in HowsUnder(Faults) : \E cut \in Cuts(fs[TARGET], how) :
          FixBackup(p, how, cut)
    \/ \E how \in WriteHows : \E cut \in Cuts(fix[p].code, how) :
       \E fault \in HandlerFaults(how, Faults) : FixWrite(p, how, cut, fault)
    \/ \E run \in PytestRuns, fault \in TestFaults(Faults) : FixTest(p, run, fault)
    \/ \E fault \in Faults : FixDecide(p, fault)

(***************************************************************************)
(* RefactoringPipeline (pipelines.py).  A call is main()'s                 *)
(* RefactoringPipeline(file_path).execute(): a fresh instance, whose       *)
(* refactoring_log starts empty.                                           *)
(***************************************************************************)
RefactorLines == 100
RefactorBytes == 3000

LogEntry(step) == [step |-> step, success |-> FALSE, skipped |-> FALSE]

\* _analyze_code: needs_refactoring
NeedsRefactoring(c) == LinesOfCode(c) > RefactorLines \/ FileSize(c) > RefactorBytes

\* _create_backup: shutil.copy2(self.file_path, self.backup_path)
CreateBackup(f) == CopyFile(f, TARGET, BACKUP)

\* _apply_refactoring: a simulation that only logs, the file is not written
ApplyRefactoring(f) == f

\* _rollback that copies the backup and leaves it in place
PipeRollbackCopy(f) ==
    IF Exists(f, BACKUP) THEN CopyFile(f, BACKUP, TARGET) ELSE f

\* _rollback: shutil.move of the backup over the file, when the backup exists
PipeRollback(f) ==
    IF Exists(f, BACKUP) THEN MoveFile(f, BACKUP, TARGET) ELSE f

\* _cleanup_backup: unlink the backup when it exists
CleanupBackupKeep(f) == f

CleanupBackup(f) ==
    IF Exists(f, BACKUP) THEN RemoveFile(f, BACKUP) ELSE f

\* the except branch of execute: roll back when a backup file exists
PipeExcept(f) ==
    IF Exists(f, BACKUP) THEN PipeRollback(f) ELSE f

\* _run_tests whose fallbacks for a missing tests directory or runner report
\* success without the skipped flag
RunTestsUnflagged(testsDir, run) ==
    IF ~testsDir \/ run.kind = "notfound"
    THEN [success |-> TRUE, skipped |-> FALSE, ran |-> 0, raise |-> FALSE]
    ELSE [success |-> run.kind = "ran" /\ run.rc = 0, skipped |-> FALSE, ran |-> 1,
          raise |-> run.kind = "error"]

\* _run_tests: the result dict, or "raise" for an exception it does not catch
RunTests(testsDir, run) ==
    IF ~testsDir
    THEN [success |-> TRUE, skipped |-> TRUE, ran |-> 0, raise |-> FALSE]
    ELSE CASE run.kind = "ran" ->
                [success |-> run.rc = 0, skipped |-> FALSE, ran |-> 1, raise |-> FALSE]
           [] run.kind = "timeout" ->
                [success |-> FALSE, skipped |-> FALSE, ran |-> 1, raise |-> FALSE]
           [] run.kind = "notfound" ->
                [success |-> TRUE, skipped |-> TRUE, ran |-> 0, raise |-> FALSE]
           [] OTHER ->
                [success |-> FALSE, skipped |-> FALSE, ran |-> 1, raise |-> TRUE]

IdlePipe ==
    [pc |-> "idle", status |-> "none", message |-> "", log |-> <<>>,
     fs0 |-> [n \in Files |-> Absent],
     backupTaken |-> FALSE, raised |-> "none", backupAtRaise |-> FALSE,
     targetAtRaise |-> Absent, ran |-> 0, test |-> [success |-> FALSE, skipped |-> FALSE, ran |-> 0, raise |-> FALSE]]

\* the points of execute's try where a statement other than the file
\* operations and the test runner raises: up to the call of _run_tests
\* (_analyze_code, the prints after the analysis, at the end of
\* _create_backup and of _apply_refactoring), or where the copy of
\* _create_backup raises ("backup") ...
PipeFaultsBefore ==
    {"none", "analysis", "after_analysis", "backup", "after_backup", "apply"}

\* the ways the copy of _create_backup raises under a fault
BackupHows(fault) == IF fault = "backup" THEN WriteHows \ {"ok"} ELSE {"ok"}

\* ... and after it returned (the prints before and after _cleanup_backup
\* and _rollback)
PipeFaultsAfter ==
    {"none", "before_commit", "after_commit", "before_rollback", "after_rollback"}

\* the except branch as a result
PipeError(f, base, log, where, taken) ==
    [fs |-> PipeExcept(f),
     out |-> [base EXCEPT !.pc = "done", !.status = "error", !.message = "Pipeline error",
                          !.log = IF Exists(f, BACKUP)
                                  THEN Append(log, LogEntry("rollback")) ELSE log,
                          !.raised = where, !.backupAtRaise = Exists(f, BACKUP),
                          !.targetAtRaise = f[TARGET], !.backupTaken = taken]]

\* the file-not-found check that opens execute
PipeTargetMissingNever(f) == FALSE

PipeTargetMissing(f) == ~Exists(f, TARGET)

\* execute() from the call to the point where _run_tests waits for the test
\* runner: the file system and the call, returned (pc "done") or waiting
\* (pc "testing")
execute_to_tests(f, fault, how, cut) ==
    LET base == [IdlePipe EXCEPT !.fs0 = f, !.pc = "done"]
        log1 == <<LogEntry("analysis")>>
        f2 == CreateBackup(f)
        log2 == Append(log1, LogEntry("backup"))
        f3 == ApplyRefactoring(f2)
        log3 == Append(log2, LogEntry("refactor"))
    IN  IF PipeTargetMissing(f)
        THEN [fs |-> f, out |-> [base EXCEPT !.status = "error", !.message = "File not found"]]
        ELSE IF fault = "analysis" \/ ~Exists(f, TARGET)
        THEN PipeError(f, base, <<>>, "analysis", FALSE)
        ELSE IF fault = "after_analysis"
        THEN PipeError(f, base, log1, "after_analysis", FALSE)
        ELSE IF ~NeedsRefactoring(f[TARGET])
        THEN [fs |-> f, out |-> [base EXCEPT !.status = "skipped", !.log = log1,
                                   !.message = "No refactoring opportunities found"]]
        ELSE IF fault = "backup"
        THEN PipeError(FailedCopy(f, TARGET, BACKUP, how, cut), base, log1, "backup",
                       how # "open")
        ELSE IF fault = "after_backup"
        THEN PipeError(f2, base, log2, "after_backup", TRUE)
        ELSE IF fault = "apply"
        THEN PipeError(f3, base, log3, "apply", TRUE)
        ELSE [fs |-> f3, out |-> [base EXCEPT !.pc = "testing", !.log = log3,
                                    !.backupTaken = TRUE]]

\* execute() from the return of the test runner to its own return, on the
\* file system f of that moment and the waiting call
execute_from_tests(f, call, fault, testsDir, run) ==
    LET t == RunTests(testsDir, run)
        base == [call EXCEPT !.pc = "done", !.ran = t.ran, !.test = t]
        log4 == Append(call.log, [step |-> "test", success |-> t.success, skipped |-> t.skipped])
        log5 == IF Exists(f, BACKUP) THEN Append(log4, LogEntry("rollback")) ELSE log4
    IN  IF t.raise
        THEN PipeError(f, base, call.log, "tests", TRUE)
        ELSE IF t.success
        THEN IF fault = "before_commit"
             THEN PipeError(f, base, log4, "before_commit", TRUE)
             ELSE IF fault = "after_commit"
             THEN PipeError(CleanupBackup(f), base, log4, "after_commit", TRUE)
             ELSE [fs |-> CleanupBackup(f),
                   out |-> [base EXCEPT !.status = "success", !.log = log4,
                              !.message = "Refactoring completed successfully"]]
        ELSE IF fault = "before_rollback"
             THEN PipeError(f, base, log4, "before_rollback", TRUE)
             ELSE IF fault = "after_rollback"
             THEN PipeError(PipeRollback(f), base, log5, "after_rollback", TRUE)
             ELSE [fs |-> PipeRollback(f),
                   out |-> [base EXCEPT !.status = "rollback", !.log = log5,
                              !.message = "Refactoring rolled back due to test failures"]]

(***************************************************************************)
(* write_code_file (tools.py).                                             *)
(***************************************************************************)
\* base_dir: the parent of the package directory
BaseDir == "/proj/src"

\* the working directory of the process
Cwd == BaseDir

\* str.startswith
startswith(s, prefix) ==
    Len(s) >= Len(prefix) /\ SubSeq(s, 1, Len(prefix)) = prefix

\* os.path.abspath, for paths without '.' and '..' segments
abspath(path) == IF startswith(path, "/") THEN path ELSE Cwd \o "/" \o path

\* the file_path arguments: the target by its absolute and by its relative
\* path, the file in the sibling directory, the file in another tree
TargetPath == BaseDir \o "/" \o TARGET
RelativePath == TARGET
SiblingPath == BaseDir \o "-old/" \o TARGET
OutsidePath == OUTSIDE

\* the file an absolute path names
FileAt(requested_path) ==
    IF requested_path = TargetPath THEN TARGET
    ELSE IF requested_path = SiblingPath THEN SIBLING
    ELSE requested_path

IdleWcf ==
    [result |-> "none", backup_created |-> FALSE, fs0 |-> [n \in Files |-> Absent],
     path |-> "", content |-> Absent]

\* the outcomes of the write after the copy of the backup went as bhow
WriteHowsAfter(bhow) == IF bhow = "ok" THEN WriteHows ELSE {"ok"}

\* the backup taken when the file exists
WcfBackup(f, file) ==
    IF Exists(f, file) THEN CopyFile(f, file, BackupOf(file)) ELSE f

\* write_code_file: the copy of the backup goes as `bhow` (leaving `bcut`
\* when partial), the write as `how` (leaving `cut`); an exception of either
\* ends the call in the except branch
write_code_file(f, file_path, content, bhow, bcut, how, cut) ==
    LET requested_path == abspath(file_path)
        file == FileAt(requested_path)
        base == [IdleWcf EXCEPT !.fs0 = f, !.path = file_path, !.content = content]
    IN  IF ~startswith(requested_path, BaseDir)
        THEN [fs |-> f, out |-> [base EXCEPT !.result = "denied"]]
        ELSE IF Exists(f, file) /\ bhow # "ok"
        THEN [fs |-> FailedCopy(f, file, BackupOf(file), bhow, bcut),
              out |-> [base EXCEPT !.result = "error"]]
        ELSE IF how # "ok"
        THEN [fs |-> FailedWrite(WcfBackup(f, file), file, content, how, cut),
              out |-> [base EXCEPT !.result = "error"]]
        ELSE [fs |-> WriteFile(WcfBackup(f, file), file, content),
              out |-> [base EXCEPT !.result = "ok", !.backup_created = Exists(f, file)]]

(***************************************************************************)
(* git_revert_file and execute_shell_command (tools.py), the two other     *)
(* tools that change the files a call names.                               *)
(***************************************************************************)
\* stderr of 'git checkout HEAD -- file_path' for a file HEAD does not hold
GitNoMatch(file_path) ==
    "error: pathspec '" \o file_path \o "' did not match any file(s) known to git\n"

\* stderr of 'git checkout HEAD -- file_path' for a path that is not below
\* the work tree, which is base_dir
GitOutside(file_path) ==
    "fatal: " \o file_path \o ": '" \o file_path \o "' is outside repository at '"
    \o BaseDir \o "'\n"

\* git_revert_file: `committed` is the content of the target in HEAD, Absent
\* when HEAD does not hold the file
git_revert_file(f, committed, file_path) ==
    LET requested_path == abspath(file_path)
        file == FileAt(requested_path)
    IN  IF ~startswith(requested_path, BaseDir)
        THEN [fs |-> f,
              out |-> "Error: Access denied. Can only revert files within project directory."]
        ELSE IF ~Exists(f, file)
        THEN [fs |-> f, out |-> "Error: File not found at " \o file_path]
        ELSE IF file # TARGET
        THEN [fs |-> f, out |-> "Error reverting file: " \o GitOutside(file_path)]
        ELSE IF committed = Absent
        THEN [fs |-> f, out |-> "Error reverting file: " \o GitNoMatch(file_path)]
        ELSE [fs |-> WriteFile(f, TARGET, committed),
              out |-> "Successfully reverted " \o TARGET \o " to last commit"]

\* a content no proposal holds, and the command that writes it
Foreign == MaxContent + 1
ShellWrite ==
    "yes 0123456789012345678901234567890 | head -n " \o ToStr(LinesOfCode(Foreign))
    \o " > " \o TARGET

\* commands run in base_dir that change the target or its backup artifact
ShellCommands ==
    {"rm " \o TARGET, "rm " \o BACKUP, ": > " \o TARGET, ShellWrite}

\* execute_shell_command(command) with the default timeout
execute_shell_command(f, command) ==
    LET file == IF command = "rm " \o BACKUP THEN BACKUP ELSE TARGET
        rm == command \in {"rm " \o TARGET, "rm " \o BACKUP}
        failed == rm /\ ~Exists(f, file)
        stderr == "rm: cannot remove '" \o file \o "': No such file or directory\n"
        after == IF rm THEN RemoveFile(f, file)
                 ELSE IF command = ShellWrite THEN WriteFile(f, TARGET, Foreign)
                 ELSE WriteFile(f, TARGET, Empty)
    IN  [fs |-> after,
         out |-> "===== SHELL COMMAND EXECUTION =====\n"
                 \o "Command: " \o command \o "\n"
                 \o "Exit Code: " \o (IF failed THEN "1" ELSE "0") \o "\n"
                 \o "Timeout: 30s\n\n"
                 \o (IF failed THEN "===== STDERR =====\n" \o stderr \o "\n" ELSE "")
                 \o "===================================\n"]

(***************************************************************************)
(* IterativeDebugger (pipelines.py).                                       *)
(***************************************************************************)
\* largest max_retries a debugger is constructed with
MaxRetries == 3
\* a debugger is run again only while it holds at most MaxCarry records
MaxCarry == 1
\* smallest max_retries a debugger is constructed with
MinRetries == -1

SearchThreshold == 2

\* the characters str.strip() removes, among those of 7-bit text: space,
\* \t \n \v \f \r and the separators 0x1c..0x1f
IsSpace(c) == c \in {" ", "\n", "\t", "\r", "\f", "", "", "", "", ""}

\* str.strip()
RECURSIVE strip(_)
strip(s) ==
    Bind(s, LAMBDA t :
        IF Len(t) = 0 THEN t
        ELSE IF IsSpace(SubSeq(t, 1, 1)) THEN strip(SubSeq(t, 2, Len(t)))
        ELSE IF IsSpace(SubSeq(t, Len(t), Len(t))) THEN strip(SubSeq(t, 1, Len(t) - 1))
        ELSE t)

\* str.split('\n')
RECURSIVE split_lines(_)
split_lines(s) ==
    Bind(s, LAMBDA t :
        IF \E i \in 1..Len(t) : SubSeq(t, i, i) = "\n"
        THEN LET i == CHOOSE k \in 1..Len(t) :
                         /\ SubSeq(t, k, k) = "\n"
                         /\ \A m \in 1..(k - 1) : SubSeq(t, m, m) # "\n"
             IN  <<SubSeq(t, 1, i - 1)>> \o split_lines(SubSeq(t, i + 1, Len(t)))
        ELSE <<t>>)

\* a scan of the text from the left that stops at the first keyword
error_type_leftmost(output) ==
    LET at(i, word) == /\ i + Len(word) - 1 <= Len(output)
                       /\ SubSeq(output, i, i + Len(word) - 1) = word
        KeywordAt(i) ==
            IF at(i, "AssertionError") THEN "AssertionError"
            ELSE IF at(i, "AttributeError") THEN "AttributeError"
            ELSE IF at(i, "TypeError") THEN "TypeError"
            ELSE IF at(i, "ValueError") THEN "ValueError"
            ELSE IF at(i, "ImportError") \/ at(i, "ModuleNotFoundError") THEN "ImportError"
            ELSE ""
    IN  IF \E i \in 1..Len(output) : KeywordAt(i) # ""
        THEN LET i == CHOOSE k \in 1..Len(output) :
                         /\ KeywordAt(k) # ""
                         /\ \A m \in 1..(k - 1) : KeywordAt(m) = ""
             IN  KeywordAt(i)
        ELSE "Unknown"

\* the chain with ValueError tested first
error_type_value_first(output) ==
    IF Contains(output, "ValueError") THEN "ValueError"
    ELSE IF Contains(output, "AssertionError") THEN "AssertionError"
    ELSE IF Contains(output, "AttributeError") THEN "AttributeError"
    ELSE IF Contains(output, "TypeError") THEN "TypeError"
    ELSE IF Contains(output, "ImportError") \/ Contains(output, "ModuleNotFoundError")
         THEN "ImportError"
    ELSE "Unknown"

\* the if / elif chain of _analyze_error
error_type(output) ==
    IF Contains(output, "AssertionError") THEN "AssertionError"
    ELSE IF Contains(output, "AttributeError") THEN "AttributeError"
    ELSE IF Contains(output, "TypeError") THEN "TypeError"
    ELSE IF Contains(output, "ValueError") THEN "ValueError"
    ELSE IF Contains(output, "ImportError") \/ Contains(output, "ModuleNotFoundError")
         THEN "ImportError"
    ELSE "Unknown"

\* the excerpt without the line of context
error_message_no_context(output) ==
    Bind(split_lines(output), LAMBDA lines :
        LET hit(i) == Contains(lines[i], "Error") \/ Contains(lines[i], "FAILED")
        IN  IF \E i \in 1..Len(lines) : hit(i)
            THEN strip(lines[CHOOSE k \in 1..Len(lines) :
                                 hit(k) /\ \A m \in 1..(k - 1) : ~hit(m)])
            ELSE "")

\* the loop of _analyze_error over the lines of the output
error_message(output) ==
    Bind(split_lines(output), LAMBDA lines :
        LET hit(i) == Contains(lines[i], "Error") \/ Contains(lines[i], "FAILED")
        IN  IF \E i \in 1..Len(lines) : hit(i)
            THEN LET i == CHOOSE k \in 1..Len(lines) :
                             hit(k) /\ \A m \in 1..(k - 1) : ~hit(m)
                 IN  IF i + 1 <= Len(lines)
                     THEN strip(lines[i]) \o "\n" \o strip(lines[i + 1])
                     ELSE strip(lines[i])
            ELSE "")

\* test_result.get("output", "")
GetOutput(test_result) ==
    IF "output" \in DOMAIN test_result THEN test_result.output ELSE ""

analyze_error(test_result) ==
    Bind(GetOutput(test_result), LAMBDA output :
        [error_type |-> error_type(output), error_message |-> error_message(output)])

\* what the environment gives one _run_tests call: whether
\* 'from devops_automator.tools import run_pytest' resolves, and the run
DbgRuns ==
    { [kind |-> "ran", rc |-> 0,
       stdout |-> "test_login.py::test_ok PASSED\n1 passed in 0.01s", stderr |-> ""],
      [kind |-> "ran", rc |-> 1,
       stdout |-> "test_ok FAILED\nE   AssertionError: assert 500 == 200\n1 failed in 0.02s",
       stderr |-> ""],
      [kind |-> "ran", rc |-> 1,
       stdout |-> "test_b FAILED\nE   AssertionError: assert 'All tests passed!' == ''\n"
                  \o "1 failed in 0.02s",
       stderr |-> ""],
      [kind |-> "ran", rc |-> 2,
       stdout |-> "ERROR collecting test_login.py\nE   ImportError: cannot import name 'login'\n"
                  \o "1 error in 0.05s",
       stderr |-> ""] }

\* str(e) of the import in _run_tests with the repository's own
\* devops_automator/tools.py, which does not compile
ImportErrorText == "invalid syntax (tools.py, line 412)"

\* the parse of _run_tests
ParseSuccess(result_str) ==
    Contains(result_str, "All tests passed!") \/ Contains(result_str, MOJIBAKE)

\* Path(path).resolve(), for a path without links and '..' segments
resolve(path) == abspath(path)

\* self.test_file of a debugger constructed with TestFile
DbgTestFile == resolve(TestFile)

\* IterativeDebugger._run_tests
dbg_run_tests(importOk, run) ==
    IF ~importOk
    THEN [success |-> FALSE, output |-> "Error running tests: " \o ImportErrorText]
    ELSE Bind(run_pytest(DbgTestFile, run), LAMBDA result_str :
             [success |-> ParseSuccess(result_str), output |-> result_str])

\* the call self._run_tests() with the try of _run_tests missing: the
\* ImportError leaves the call
RunTestsCallUncaught(importOk, run) ==
    [raised |-> ~importOk, value |-> dbg_run_tests(importOk, run)]

\* the call self._run_tests(): every exception is caught inside _run_tests,
\* so the call yields its result dict and no exception leaves it
RunTestsCall(importOk, run) ==
    [raised |-> FALSE, value |-> dbg_run_tests(importOk, run)]

\* verifier runs that meet a fault: the 120 second timeout, pytest missing,
\* another error of the subprocess call
FaultyRuns ==
    { [kind |-> "timeout", rc |-> Absent, stdout |-> "", stderr |-> ""],
      [kind |-> "notfound", rc |-> Absent, stdout |-> "", stderr |-> ""],
      [kind |-> "error", rc |-> Absent, stdout |-> "",
       stderr |-> "[Errno 13] Permission denied: 'pytest'"] }

None == [isNone |-> TRUE, text |-> ""]
Some(text) == [isNone |-> FALSE, text |-> text]

\* what the environment gives google_search: result URLs, an empty result
\* list, no package googlesearch to import, or search() raising
SearchOutcomes == {"results", "no_results", "not_installed", "error"}

\* str(e) of the exception search() raises
SearchErrorText == "HTTP Error 429: Too Many Requests"

\* query = f"Python {error_type} fix"
Query(error_analysis) == "Python " \o error_analysis.error_type \o " fix"

\* google_search(query, num_results=3), with one URL found
google_search(query, outcome) ==
    IF outcome = "not_installed"
    THEN "Error: googlesearch-python not installed. Run: pip install googlesearch-python"
    ELSE IF outcome = "error"
    THEN "Error performing search: " \o SearchErrorText
    ELSE IF outcome = "no_results"
    THEN "No results found for: " \o query
    ELSE "===== GOOGLE SEARCH RESULTS =====\n"
         \o "Query: " \o query \o "\n"
         \o "Found 1 results:\n\n"
         \o "1. https://stackoverflow.com/questions/1\n"
         \o "\n===================================\n"

\* _search_for_solution: the import of _run_tests again, then the search; the
\* except branch gives the text of the exception
search_for_solution(importOk, error_analysis, outcome) ==
    IF ~importOk
    THEN Some("Search failed: " \o ImportErrorText)
    ELSE Some(google_search(Query(error_analysis), outcome))

\* Step 3 with the search run in every attempt
SearchInvokedAlways(attempt_num) == TRUE

\* Step 3: the search runs from attempt SearchThreshold on
SearchInvoked(attempt_num) == attempt_num >= SearchThreshold

\* _generate_and_apply_fix: a simulation, it returns fix_info and writes no file
generate_and_apply_fix(f, error_analysis, search_results) ==
    [fs |-> f,
     fix_info |-> [type |-> "simulated",
                   error_addressed |-> error_analysis.error_type,
                   search_context |-> IF ~search_results.isNone /\ search_results.text # ""
                                      THEN "Used" ELSE "Not used"]]

NoTestResult == [success |-> FALSE, output |-> ""]

IdleDbg ==
    [pc |-> "idle", max_retries |-> 0, attempt_num |-> 0, attempts |-> <<>>,
     test_result |-> NoTestResult, status |-> "none", attempts_count |-> 0,
     runs |-> 0, fixes |-> 0, searches |-> 0, base |-> 0, target0 |-> Absent,
     cancel |-> FALSE, importOk |-> FALSE]

\* range(1, self.max_retries + 1) has a next value after attempt_num
LoopHasNextOneMore(attempt_num, max_retries) == attempt_num < max_retries + 1

LoopHasNext(attempt_num, max_retries) == attempt_num < max_retries

\* the for statement keeps attempt_num where range has a next value to give
NextAttemptStuck(attempt_num) == attempt_num

\* the next value of range(1, self.max_retries + 1)
NextAttempt(attempt_num) == attempt_num + 1

\* an append that overwrites the last record
AppendRecordOverLast(attempts, record) ==
    IF attempts = <<>> THEN <<record>> ELSE [attempts EXCEPT ![Len(attempts)] = record]

\* self.attempts.append(record)
AppendRecord(attempts, record) == Append(attempts, record)

\* the return of the success branch
SuccessReturnCountsRecords(d, attempt_num) ==
    [d EXCEPT !.pc = "done", !.status = "success", !.attempts_count = Len(d.attempts)]

SuccessReturn(d, attempt_num) ==
    [d EXCEPT !.pc = "done", !.status = "success", !.attempts_count = attempt_num]

\* the return after the loop
MaxRetriesReturn(d) ==
    [d EXCEPT !.pc = "done", !.status = "max_retries", !.attempts_count = d.max_retries]

\* IterativeDebugger(test_file, code_file, max_retries)
DbgNew(max_retries) ==
    /\ dbg.pc \in {"idle", "done"}
    /\ dbg' = [IdleDbg EXCEPT !.pc = "ready", !.max_retries = max_retries]
    /\ UNCHANGED <<fs, fix, hist, pipe, wcf, calc>>

\* the call of debug_until_fixed, up to the first iteration of the loop; with
\* an empty range the return statement reads the unbound test_result.
\* importOk: whether 'from devops_automator.tools import ...' resolves in the
\* environment of the call
DbgCall(importOk) ==
    /\ \/ dbg.pc = "ready"
       \/ dbg.pc = "done" /\ Len(dbg.attempts) <= MaxCarry
    /\ LET d == [dbg EXCEPT !.attempt_num = 0, !.test_result = NoTestResult,
                            !.status = "none", !.attempts_count = 0,
                            !.runs = 0, !.fixes = 0, !.searches = 0, !.cancel = FALSE,
                            !.importOk = importOk,
                            !.base = Len(dbg.attempts), !.target0 = fs[TARGET]]
       IN  IF LoopHasNext(0, dbg.max_retries)
           THEN dbg' = [d EXCEPT !.pc = "loop", !.attempt_num = NextAttempt(0)]
           ELSE dbg' = [d EXCEPT !.pc = "done", !.status = "raised"]
    /\ UNCHANGED <<fs, fix, hist, pipe, wcf, calc>>

\* Step 4 and the end of an iteration: the fix, the record, and the next
\* value of the range or the return after the loop
FinishAttempt(d, f, error_analysis, search_results) ==
    LET n == d.attempt_num
        applied == generate_and_apply_fix(f, error_analysis, search_results)
        record == [attempt_number |-> n,
                   test_result |-> d.test_result,
                   error_analysis |-> error_analysis,
                   search_results |-> search_results,
                   fix_applied |-> applied.fix_info]
        d2 == [d EXCEPT !.attempts = AppendRecord(@, record), !.fixes = @ + 1]
    IN  [fs |-> applied.fs,
         dbg |-> IF LoopHasNext(n, d.max_retries)
                 THEN [d2 EXCEPT !.pc = "loop", !.attempt_num = NextAttempt(n)]
                 ELSE MaxRetriesReturn(d2)]

\* an iteration from the return of _run_tests (where the loop waited for the
\* verifier) to the return of the session, to the end of the iteration, or,
\* from attempt SearchThreshold on, to the wait for the search
DbgIterate(run) ==
    /\ dbg.pc = "loop"
    /\ \E call \in {RunTestsCall(dbg.importOk, run)} :
       LET n == dbg.attempt_num
           test_result == call.value
           d1 == [dbg EXCEPT !.test_result = test_result, !.runs = @ + 1]
       IN  IF call.raised
           THEN /\ dbg' = [dbg EXCEPT !.pc = "done", !.status = "raised", !.runs = @ + 1]
                /\ fs' = fs
           ELSE IF test_result.success
           THEN /\ dbg' = SuccessReturn(d1, n)
                /\ fs' = fs
           ELSE IF SearchInvoked(n)
           THEN /\ dbg' = [d1 EXCEPT !.pc = "search", !.searches = @ + 1]
                /\ fs' = fs
           ELSE \E error_analysis \in {analyze_error(test_result)} :
                \E finished \in {FinishAttempt(d1, fs, error_analysis, None)} :
                    /\ dbg' = finished.dbg
                    /\ fs' = finished.fs
    /\ UNCHANGED <<fix, hist, pipe, wcf, calc>>

\* the rest of an iteration, from the return of _search_for_solution
DbgSearched(outcome) ==
    /\ dbg.pc = "search"
    /\ \E error_analysis \in {analyze_error(dbg.test_result)} :
       \E search_results \in {search_for_solution(dbg.importOk, error_analysis, outcome)} :
       \E finished \in {FinishAttempt(dbg, fs, error_analysis, search_results)} :
           /\ dbg' = finished.dbg
           /\ fs' = finished.fs
    /\ UNCHANGED <<fix, hist, pipe, wcf, calc>>

\* the verifier returns with a passing run or with a fault
DbgLoopFaulty ==
    \E run \in FaultyRuns \cup {r \in DbgRuns : r.rc = 0} : DbgIterate(run)

\* the verifier returns with whatever it gives
DbgLoop == \E run \in DbgRuns : DbgIterate(run)

\* the search returns with whatever it gives
DbgSearch == \E outcome \in SearchOutcomes : DbgSearched(outcome)

\* the two environments of a call
DbgEnter == \E importOk \in BOOLEAN : DbgCall(importOk)

InitDebug ==
    /\ \E c \in {1, MaxContent} :
          /\ fs = [n \in Files |-> IF n = TARGET THEN c ELSE Absent]
          /\ hist = [initial |-> c, lastPassed |-> Absent]
    /\ fix = [p \in Procs |-> IdleFix]
    /\ pipe = IdlePipe
    /\ wcf = IdleWcf
    /\ dbg = IdleDbg
    /\ calc = IdleCalc

NextDebug ==
    \/ \E max_retries \in MinRetries..MaxRetries : DbgNew(max_retries)
    \/ DbgEnter
    \/ DbgLoop
    \/ DbgSearch

SpecDebug == InitDebug /\ [][NextDebug]_vars

\* one session of a new debugger: the constructor, then debug_until_fixed
DbgFirst == \E max_retries \in MinRetries..MaxRetries : dbg.pc = "idle" /\ DbgNew(max_retries)

DbgStart == dbg.pc = "ready" /\ DbgEnter

NextSession ==
    \/ DbgFirst
    \/ DbgStart
    \/ DbgLoop
    \/ DbgSearch

\* the caller asks for the running session to be cancelled, while the loop
\* waits for the verifier or for the search; no statement of
\* debug_until_fixed reads such a request
DbgCancel ==
    /\ dbg.pc \in {"loop", "search"}
    /\ ~dbg.cancel
    /\ dbg' = [dbg EXCEPT !.cancel = TRUE]
    /\ UNCHANGED <<fs, fix, hist, pipe, wcf, calc>>

NextCancel ==
    \/ DbgFirst
    \/ DbgStart
    \/ DbgLoop
    \/ DbgSearch
    \/ DbgCancel

\* one session during which a cancellation may be requested
SpecDebugCancel == InitDebug /\ [][NextCancel]_vars

NextFaulty ==
    \/ DbgFirst
    \/ DbgStart
    \/ DbgLoopFaulty
    \/ DbgSearch

\* one session in which every verifier run that does not pass meets a fault
SpecDebugFaults == InitDebug /\ [][NextFaulty]_vars

\* debug_until_fixed is sequential code and every call it makes returns (the
\* verifier run is bounded by a timeout, the search returns or raises), so a
\* started iteration completes
SpecDebugFair ==
    InitDebug /\ [][NextSession]_vars /\ WF_vars(DbgLoop) /\ WF_vars(DbgSearch)

IdleFixes == [p \in Procs |-> IdleFix]

\* no call is in flight and the caller holds no result of an earlier call
NoCallInFlight ==
    /\ \A p \in Procs : fix[p].pc = "idle"
    /\ pipe = IdlePipe
    /\ wcf = IdleWcf
    /\ calc = IdleCalc

\* the caller drops the value the last call returned
Forget ==
    /\ \A p \in Procs : fix[p].pc \in {"idle", "done"}
    /\ pipe.pc # "testing"
    /\ \/ \E p \in Procs : fix[p].pc = "done"
       \/ pipe # IdlePipe
       \/ wcf # IdleWcf
       \/ calc # IdleCalc
    /\ fix' = IdleFixes
    /\ pipe' = IdlePipe
    /\ wcf' = IdleWcf
    /\ calc' = IdleCalc
    /\ UNCHANGED <<fs, hist, dbg>>

\* one call of attempt_autonomous_fix, from its start to its return
FixTransaction ==
    /\ fix[1].pc = "idle" => NoCallInFlight
    /\ FixStep(1, BOOLEAN)
    /\ UNCHANGED <<pipe, wcf, hist>>

\* the call of execute, up to its return or to the wait for the test runner
PipeBegin ==
    /\ NoCallInFlight
    /\ \E fault \in PipeFaultsBefore : \E how \in BackupHows(fault) :
       \E cut \in Cuts(fs[TARGET], how) :
          LET r == execute_to_tests(fs, fault, how, cut)
          IN  /\ fs' = r.fs
              /\ pipe' = r.out
    /\ UNCHANGED <<fix, wcf, hist, dbg, calc>>

\* the test runner returns and execute runs to its return
PipeEnd ==
    /\ pipe.pc = "testing"
    /\ \E fault \in PipeFaultsAfter, testsDir \in BOOLEAN, run \in PytestRuns :
          LET r == execute_from_tests(fs, pipe, fault, testsDir, run)
          IN  /\ fs' = r.fs
              /\ pipe' = r.out
    /\ UNCHANGED <<fix, wcf, hist, dbg, calc>>

\* the paths of calls that are about the target: the target itself, and a
\* path in another tree
TargetPaths == {TargetPath, OutsidePath}

WriteCodeFile ==
    /\ NoCallInFlight
    /\ \E file_path \in TargetPaths, content \in Proposals, bhow \in WriteHows :
       \E how \in WriteHowsAfter(bhow) :
       \E bcut \in Cuts(fs[FileAt(abspath(file_path))], bhow), cut \in Cuts(content, how) :
          LET r == write_code_file(fs, file_path, content, bhow, bcut, how, cut)
          IN  /\ fs' = r.fs
              /\ wcf' = r.out
    /\ UNCHANGED <<fix, pipe, hist, dbg, calc>>

\* a call of git_revert_file; HEAD holds the target as it was at the start
GitRevertFile ==
    /\ NoCallInFlight
    /\ \E file_path \in TargetPaths :
          LET r == git_revert_file(fs, hist.initial, file_path)
          IN  /\ fs' = r.fs
              /\ calc' = [pc |-> "done", fn |-> "git_revert_file",
                          in |-> <<file_path>>, out |-> <<r.out>>]
    /\ UNCHANGED <<fix, pipe, wcf, hist, dbg>>

\* a call of execute_shell_command
ExecuteShellCommand ==
    /\ NoCallInFlight
    /\ \E command \in ShellCommands :
          LET r == execute_shell_command(fs, command)
          IN  /\ fs' = r.fs
              /\ calc' = [pc |-> "done", fn |-> "execute_shell_command",
                          in |-> <<command>>, out |-> <<r.out>>]
    /\ UNCHANGED <<fix, pipe, wcf, hist, dbg>>

InitFiles ==
    /\ \E c \in {Absent} \cup Proposals :
          /\ fs = [n \in Files |-> IF n = TARGET THEN c ELSE Absent]
          /\ hist = [initial |-> c, lastPassed |-> Absent]
    /\ fix = IdleFixes
    /\ pipe = IdlePipe
    /\ wcf = IdleWcf
    /\ dbg = IdleDbg
    /\ calc = IdleCalc

\* the three operations on one target, one call at a time
Init == InitFiles

Next ==
    \/ FixTransaction
    \/ PipeBegin
    \/ PipeEnd
    \/ WriteCodeFile
    \/ GitRevertFile
    \/ ExecuteShellCommand
    \/ Forget

Spec == Init /\ [][Next]_vars

\* execute on a target that write_code_file writes while execute waits for
\* the test runner: neither function takes a lock
WriteDuringTests ==
    /\ pipe.pc = "testing"
    /\ \E content \in Proposals :
          LET r == write_code_file(fs, TargetPath, content, "ok", Empty, "ok", Empty)
          IN  /\ fs' = r.fs
              /\ wcf' = r.out
    /\ UNCHANGED <<fix, pipe, hist, dbg, calc>>

NextShared ==
    \/ PipeBegin
    \/ PipeEnd
    \/ WriteDuringTests
    \/ Forget

SpecShared == Init /\ [][NextShared]_vars

\* attempt_autonomous_fix alone, one transaction after the other, with no
\* unexpected exception (the write may still fail)
InitFix == InitFiles

\* the history of the target over the transactions: its initial content and
\* the proposal of the latest transaction whose pytest run exited with 0
HistAfter ==
    IF fix[1].pc = "decide" /\ fix[1].run.kind = "ran" /\ fix[1].run.rc = 0
    THEN [hist EXCEPT !.lastPassed = fix[1].code]
    ELSE hist

FixOnly ==
    /\ FixStep(1, {FALSE})
    /\ hist' = HistAfter
    /\ UNCHANGED <<pipe, wcf>>

NextFix ==
    \/ FixOnly
    \/ Forget

SpecFix == InitFix /\ [][NextFix]_vars

(***************************************************************************)
(* Two calls of attempt_autonomous_fix on the same target, one per process, *)
(* with nothing that keeps the second from starting while the first is in   *)
(* flight: the function takes no lock.  A step is one of the numbered steps *)
(* of the function; the copy of Step 1 and the write of Step 2 may fail.    *)
(***************************************************************************)
\* a call of another process is between its start and its return
OthersInFlight(p) == \E q \in Procs \ {p} : fix[q].pc \notin {"idle", "done"}

\* the proposals of the two calls, and the verifier runs that finish
OverlapProposals == {1, MaxContent}
OverlapRuns == {r \in PytestRuns : r.kind = "ran" /\ r.rc \in {0, 1}}

OverlapStep(p) ==
    /\ \/ \E code \in OverlapProposals, testExists \in BOOLEAN :
             FixCall(p, code, testExists, FALSE)
       \/ \E how \in WriteHows : \E cut \in Cuts(fs[TARGET], how) : FixBackup(p, how, cut)
       \/ \E how \in WriteHows : \E cut \in Cuts(fix[p].code, how) :
             FixWrite(p, how, cut, FALSE)
       \/ \E run \in OverlapRuns : FixTest(p, run, "none")
       \/ FixDecide(p, FALSE)
    /\ hist' = [hist EXCEPT !.overlapped = @ \/ (fix[p].pc = "idle" /\ OthersInFlight(p))]
    /\ UNCHANGED <<pipe, wcf>>

InitOverlap ==
    /\ \E c \in OverlapProposals :
          /\ fs = [n \in Files |-> IF n = TARGET THEN c ELSE Absent]
          /\ hist = [initial |-> c, lastPassed |-> Absent, overlapped |-> FALSE]
    /\ fix = IdleFixes
    /\ pipe = IdlePipe
    /\ wcf = IdleWcf
    /\ dbg = IdleDbg
    /\ calc = IdleCalc

NextOverlap == \E p \in Procs : OverlapStep(p)

SpecOverlap == InitOverlap /\ [][NextOverlap]_vars

(***************************************************************************)
(* write_code_file and git_revert_file on their own: any sequence of calls, *)
(* with any of the paths; the caller holds the value of the last call.      *)
(***************************************************************************)
WritePaths == {TargetPath, RelativePath, SiblingPath, OutsidePath}

\* the contents the calls write
WriteContents == {1, MaxContent}

WriteAnyPath ==
    /\ \E file_path \in WritePaths, content \in WriteContents, bhow \in WriteHows :
       \E how \in WriteHowsAfter(bhow) :
       \E bcut \in Cuts(fs[FileAt(abspath(file_path))], bhow), cut \in Cuts(content, how) :
          LET r == write_code_file(fs, file_path, content, bhow, bcut, how, cut)
          IN  /\ fs' = r.fs
              /\ wcf' = r.out
    /\ calc' = IdleCalc
    /\ UNCHANGED <<fix, pipe, hist, dbg>>

\* git_revert_file with any of the paths; HEAD holds the target as it was at
\* the start
GitRevertAnyPath ==
    /\ \E file_path \in WritePaths :
          LET r == git_revert_file(fs, hist.initial, file_path)
          IN  /\ fs' = r.fs
              /\ calc' = [pc |-> "done", fn |-> "git_revert_file",
                          in |-> <<file_path>>, out |-> <<r.out>>]
    /\ wcf' = IdleWcf
    /\ UNCHANGED <<fix, pipe, hist, dbg>>

InitWrite ==
    /\ \E c \in {Absent, 1}, sib \in {Absent, MaxContent}, out \in {Absent, 1} :
          /\ fs = [n \in Files |-> IF n = TARGET THEN c
                                   ELSE IF n = SIBLING THEN sib
                                   ELSE IF n = OUTSIDE THEN out ELSE Absent]
          /\ hist = [initial |-> c, lastPassed |-> Absent]
    /\ fix = IdleFixes
    /\ pipe = IdlePipe
    /\ wcf = IdleWcf
    /\ dbg = IdleDbg
    /\ calc = IdleCalc

NextWrite ==
    \/ WriteAnyPath
    \/ GitRevertAnyPath

SpecWrite == InitWrite /\ [][NextWrite]_vars

(***************************************************************************)
(* _create_backup and _rollback of RefactoringPipeline on their own, as the *)
(* tests call them: backup, any overwrites of the file, rollback.           *)
(***************************************************************************)
RtCreateBackup ==
    /\ calc.fn = "round_trip"
    /\ calc.pc = "start"
    /\ fs' = CreateBackup(fs)
    /\ calc' = [calc EXCEPT !.pc = "backed"]
    /\ UNCHANGED <<fix, hist, pipe, wcf, dbg>>

\* the file is overwritten with d, or deleted
RtOverwrite ==
    /\ calc.fn = "round_trip"
    /\ calc.pc \in {"backed", "overwritten"}
    /\ \E d \in Contents \cup {Absent} :
          /\ d # fs[TARGET]
          /\ fs' = IF d = Absent THEN RemoveFile(fs, TARGET) ELSE WriteFile(fs, TARGET, d)
    /\ calc' = [calc EXCEPT !.pc = "overwritten"]
    /\ UNCHANGED <<fix, hist, pipe, wcf, dbg>>

RtRollback ==
    /\ calc.fn = "round_trip"
    /\ calc.pc \in {"start", "backed", "overwritten"}
    /\ fs' = PipeRollback(fs)
    /\ calc' = [calc EXCEPT !.pc = "done", !.out = [after |-> calc.pc, before |-> fs]]
    /\ UNCHANGED <<fix, hist, pipe, wcf, dbg>>

InitRoundTrip ==
    /\ \E c \in Contents, b \in Contents \cup {Absent} :
          /\ fs = [n \in Files |-> IF n = TARGET THEN c ELSE IF n = BACKUP THEN b ELSE Absent]
          /\ calc = [pc |-> "start", fn |-> "round_trip", in |-> [c |-> c, stale |-> b],
                    out |-> <<>>]
    /\ hist = [initial |-> Absent, lastPassed |-> Absent]
    /\ fix = [p \in Procs |-> IdleFix]
    /\ pipe = IdlePipe
    /\ wcf = IdleWcf
    /\ dbg = IdleDbg

NextRoundTrip ==
    \/ RtCreateBackup
    \/ RtOverwrite
    \/ RtRollback

SpecRoundTrip == InitRoundTrip /\ [][NextRoundTrip]_vars

(***************************************************************************)
(* aggregate_reports (tools.py): the three buckets and the report text.     *)
(***************************************************************************)
\* U+1F534, U+26A0 U+FE0F and U+2501
RED == "[U+1F534]"
WARN == "[U+26A0][U+FE0F]"
HEAVY == "[U+2501]"

RECURSIVE Repeat(_, _)
Repeat(c, n) == IF n = 0 THEN "" ELSE c \o Repeat(c, n - 1)

CharAt(s, i) == IF 1 <= i /\ i <= Len(s) THEN SubSeq(s, i, i) ELSE ""

\* s has lit at position i
StartsAt(s, i, lit) ==
    /\ 1 <= i
    /\ i + Len(lit) - 1 <= Len(s)
    /\ SubSeq(s, i, i + Len(lit) - 1) = lit

\* \d
IsDigit(c) == \E i \in 1..10 : SubSeq(Digits, i, i) = c

DigitVal(c) == (CHOOSE i \in 1..10 : SubSeq(Digits, i, i) = c) - 1

\* \d* from position i: the position after the longest run of digits
RECURSIVE DigitRunEnd(_, _)
DigitRunEnd(s, i) == IF IsDigit(CharAt(s, i)) THEN DigitRunEnd(s, i + 1) ELSE i

\* int(text) of a string of digits
RECURSIVE ParseInt(_)
ParseInt(text) ==
    IF text = "" THEN 0
    ELSE 10 * ParseInt(SubSeq(text, 1, Len(text) - 1)) + DigitVal(CharAt(text, Len(text)))

RECURSIVE Pow10(_)
Pow10(n) == IF n = 0 THEN 1 ELSE 10 * Pow10(n - 1)

\* (\d+\.?\d*)/10 matched at position i: the position after the group, or 0
ScoreMatchEnd(s, i) ==
    IF ~IsDigit(CharAt(s, i)) THEN 0
    ELSE LET j == DigitRunEnd(s, i)
             k == IF CharAt(s, j) = "." THEN DigitRunEnd(s, j + 1) ELSE j
         IN  IF StartsAt(s, k, "/10") THEN k ELSE 0

\* re.search(r'(\d+\.?\d*)/10', s): group 1 of the leftmost match
score_match(s) ==
    IF \E i \in 1..Len(s) : ScoreMatchEnd(s, i) > 0
    THEN LET i == CHOOSE k \in 1..Len(s) :
                     /\ ScoreMatchEnd(s, k) > 0
                     /\ \A m \in 1..(k - 1) : ScoreMatchEnd(s, m) = 0
         IN  Some(SubSeq(s, i, ScoreMatchEnd(s, i) - 1))
    ELSE None

\* (\d+)% matched at position i: the position after the group, or 0
CoverageMatchEnd(s, i) ==
    IF ~IsDigit(CharAt(s, i)) THEN 0
    ELSE LET j == DigitRunEnd(s, i)
         IN  IF CharAt(s, j) = "%" THEN j ELSE 0

\* re.search(r'(\d+)%', s): group 1 of the leftmost match
coverage_match(s) ==
    IF \E i \in 1..Len(s) : CoverageMatchEnd(s, i) > 0
    THEN LET i == CHOOSE k \in 1..Len(s) :
                     /\ CoverageMatchEnd(s, k) > 0
                     /\ \A m \in 1..(k - 1) : CoverageMatchEnd(s, m) = 0
         IN  Some(SubSeq(s, i, CoverageMatchEnd(s, i) - 1))
    ELSE None

\* float(text) of digits, an optional point and digits: num / scale
ParseFloat(text) ==
    LET j == DigitRunEnd(text, 1)
        whole == SubSeq(text, 1, j - 1)
        frac == IF j <= Len(text) THEN SubSeq(text, j + 1, Len(text)) ELSE ""
    IN  [num |-> ParseInt(whole \o frac), scale |-> Pow10(Len(frac))]

\* score < limit for a whole number limit
FloatLess(f, limit) == f.num < limit * f.scale

\* the digits of rem / scale after the point, without trailing zeros
RECURSIVE FracDigits(_, _)
FracDigits(rem, scale) ==
    IF rem = 0 THEN ""
    ELSE LET unit == scale \div 10
         IN  ToStr(rem \div unit) \o FracDigits(rem % unit, unit)

\* num / scale written with a point and no exponent
DecimalText(f) ==
    LET frac == FracDigits(f.num % f.scale, f.scale)
    IN  ToStr(f.num \div f.scale) \o "." \o (IF frac = "" THEN "0" ELSE frac)

\* the decimal digits of n > 0 without its trailing zeros
RECURSIVE Significand(_)
Significand(n) == IF n % 10 = 0 THEN Significand(n \div 10) ELSE ToStr(n)

\* str(score) of a float with a short decimal expansion: the shortest digits
\* that give the float back, written with an exponent when the value is
\* below 0.0001 (float_repr_style 'short': decimal point position < -3)
FloatStr(f) ==
    LET \* the value is 0.d1d2... * 10^point
        point == Len(ToStr(f.num)) - (Len(ToStr(f.scale)) - 1)
        digits == Significand(f.num)
        exp == 1 - point
    IN  IF f.num > 0 /\ point < -3
        THEN SubSeq(digits, 1, 1)
             \o (IF Len(digits) > 1 THEN "." \o SubSeq(digits, 2, Len(digits)) ELSE "")
             \o "e-" \o (IF exp < 10 THEN "0" ELSE "") \o ToStr(exp)
        ELSE DecimalText(f)

\* the condition that opens the security branch
SecurityTriggered(security_report) ==
    /\ security_report # ""
    /\ \/ Contains(security_report, "Critical")
       \/ Contains(security_report, "High")
       \/ Contains(security_report, "SQL")
       \/ Contains(lower(security_report), "injection")

LineWords == {"sql injection", "xss", "critical", "high severity"}

\* the for / else over the lines of the security report
SecurityItem(security_report) ==
    LET lines == split_lines(security_report)
        hit(i) == \E word \in LineWords : Contains(lower(lines[i]), word)
    IN  IF \E i \in 1..Len(lines) : hit(i)
        THEN LET i == CHOOSE k \in 1..Len(lines) : hit(k) /\ \A m \in 1..(k - 1) : ~hit(m)
             IN  RED \o " SECURITY: " \o strip(lines[i])
        ELSE RED \o " SECURITY: Critical vulnerabilities detected - see detailed report"

HasGrade(quality_report, g) ==
    Contains(quality_report, "Grade: " \o g) \/ Contains(quality_report, "Grade " \o g)

NoBuckets == [critical_issues |-> <<>>, warnings |-> <<>>, suggestions |-> <<>>]

\* 'Extract from security report'
SecurityBuckets(b, security_report) ==
    IF SecurityTriggered(security_report)
    THEN [b EXCEPT !.critical_issues = Append(@, SecurityItem(security_report))]
    ELSE b

\* 'Check for low scores'
ScoreBuckets(b, quality_report) ==
    LET m == score_match(quality_report)
    IN  IF quality_report = "" \/ m.isNone THEN b
        ELSE LET score == ParseFloat(m.text)
             IN  IF FloatLess(score, 5)
                 THEN [b EXCEPT !.critical_issues =
                          Append(@, RED \o " QUALITY: Very low code quality score ("
                                        \o FloatStr(score) \o "/10)")]
                 ELSE IF FloatLess(score, 7)
                 THEN [b EXCEPT !.warnings =
                          Append(@, WARN \o " QUALITY: Below-average code quality score ("
                                         \o FloatStr(score) \o "/10)")]
                 ELSE b

\* 'Check for complexity'
GradeBuckets(b, quality_report) ==
    IF quality_report = "" THEN b
    ELSE IF HasGrade(quality_report, "F")
    THEN [b EXCEPT !.critical_issues =
             Append(@, RED \o " QUALITY: Extremely complex code detected (Grade F)")]
    ELSE IF HasGrade(quality_report, "D")
    THEN [b EXCEPT !.warnings =
             Append(@, WARN \o " QUALITY: Very complex code (Grade D) - refactoring recommended")]
    ELSE IF HasGrade(quality_report, "C")
    THEN [b EXCEPT !.suggestions =
             Append(@, BULB \o " QUALITY: Moderate complexity (Grade C) - consider simplification")]
    ELSE b

\* 'Extract from test coverage'
CoverageBuckets(b, test_coverage_notes) ==
    LET m == coverage_match(test_coverage_notes)
    IN  IF test_coverage_notes = "" \/ m.isNone THEN b
        ELSE LET coverage == ParseInt(m.text)
             IN  IF coverage < 50
                 THEN [b EXCEPT !.critical_issues =
                          Append(@, RED \o " TESTING: Very low test coverage ("
                                        \o ToStr(coverage) \o "%)")]
                 ELSE IF coverage < 80
                 THEN [b EXCEPT !.warnings =
                          Append(@, WARN \o " TESTING: Insufficient test coverage ("
                                         \o ToStr(coverage) \o "%)")]
                 ELSE [b EXCEPT !.suggestions =
                          Append(@, CHECK \o " TESTING: Good test coverage ("
                                          \o ToStr(coverage) \o "%)")]

\* the three lists after the parsing of the three reports
Buckets(security_report, quality_report, test_coverage_notes) ==
    CoverageBuckets(
        GradeBuckets(
            ScoreBuckets(SecurityBuckets(NoBuckets, security_report), quality_report),
            quality_report),
        test_coverage_notes)

\* "   {item}\n" for every item of a list
RECURSIVE ItemLines(_)
ItemLines(items) ==
    IF items = <<>> THEN ""
    ELSE "   " \o Head(items) \o "\n" \o ItemLines(Tail(items))

\* the lines under EXECUTIVE SUMMARY
ExecutiveSummary(b) ==
    "EXECUTIVE SUMMARY:\n" \o Rule \o "\n"
    \o (IF b.critical_issues # <<>>
        THEN SIREN \o " CRITICAL ISSUES FOUND - MUST FIX BEFORE MERGE:\n"
             \o ItemLines(b.critical_issues) \o "\n"
        ELSE "")
    \o (IF b.warnings # <<>>
        THEN WARN \o "  WARNINGS - SHOULD ADDRESS:\n" \o ItemLines(b.warnings) \o "\n"
        ELSE "")
    \o (IF b.suggestions # <<>> /\ b.critical_issues = <<>>
        THEN BULB \o " SUGGESTIONS FOR IMPROVEMENT:\n" \o ItemLines(b.suggestions) \o "\n"
        ELSE "")
    \o (IF b.critical_issues = <<>> /\ b.warnings = <<>>
        THEN CHECK \o " No critical issues or warnings detected\n\n"
        ELSE "")

HeavyRule == Repeat(HEAVY, 70)

\* one numbered section of DETAILED ANALYSIS
DetailSection(title, text, missing) ==
    HeavyRule \o "\n" \o title \o "\n" \o HeavyRule \o "\n"
    \o (IF text # "" THEN text \o "\n\n" ELSE missing \o "\n\n")

DetailedAnalysis(security_report, quality_report, test_coverage_notes) ==
    Banner \o "\nDETAILED ANALYSIS:\n" \o Banner \o "\n\n"
    \o DetailSection("1. SECURITY ANALYSIS:", security_report,
                     "No security scan results provided.")
    \o DetailSection("2. CODE QUALITY ANALYSIS:", quality_report,
                     "No quality analysis results provided.")
    \o DetailSection("3. TEST COVERAGE ANALYSIS:", test_coverage_notes,
                     "No test coverage analysis provided.")

\* the final if / elif / else with the warnings tested first
VerdictWarningsFirst(b) ==
    IF b.warnings # <<>>
    THEN WARN \o "  CONDITIONAL APPROVAL\n"
    ELSE IF b.critical_issues # <<>>
    THEN CROSS \o " REJECT - DO NOT MERGE\n"
    ELSE CHECK \o " APPROVED FOR MERGE\n"

\* the final if / elif / else
Verdict(b) ==
    IF b.critical_issues # <<>>
    THEN CROSS \o " REJECT - DO NOT MERGE\n"
         \o "   Critical issues must be resolved before this code can be merged.\n"
         \o "   Found " \o ToStr(Len(b.critical_issues))
         \o " critical issue(s) requiring immediate attention.\n"
    ELSE IF b.warnings # <<>>
    THEN WARN \o "  CONDITIONAL APPROVAL\n"
         \o "   Code can be merged after addressing the warnings above.\n"
         \o "   Found " \o ToStr(Len(b.warnings)) \o " warning(s) that should be addressed.\n"
    ELSE CHECK \o " APPROVED FOR MERGE\n"
         \o "   Code meets quality standards and security requirements.\n"
         \o (IF b.suggestions # <<>>
             THEN "   Consider implementing " \o ToStr(Len(b.suggestions))
                  \o " suggestion(s) for further improvement.\n"
             ELSE "")

FinalMarker == "FINAL RECOMMENDATION:\n"

FinalRecommendation(b) ==
    Banner \o "\n" \o FinalMarker \o Banner \o "\n" \o Verdict(b) \o Banner \o "\n"

\* aggregate_reports: the report it returns, with the three lists it built
aggregate_reports(security_report, quality_report, test_coverage_notes) ==
    LET b == Buckets(security_report, quality_report, test_coverage_notes)
    IN  [critical_issues |-> b.critical_issues,
         warnings |-> b.warnings,
         suggestions |-> b.suggestions,
         report |-> Banner \o "\n           COMPREHENSIVE CODE AUDIT REPORT\n"
                    \o Banner \o "\n\n"
                    \o ExecutiveSummary(b)
                    \o DetailedAnalysis(security_report, quality_report, test_coverage_notes)
                    \o FinalRecommendation(b)]


\* the security reports: a text, and whether it holds a trigger word
SecurityCases ==
    { [text |-> "", trigger |-> FALSE],
      [text |-> "No vulnerabilities found.", trigger |-> FALSE],
      [text |-> "Critical: SQL Injection detected", trigger |-> TRUE],
      [text |-> "Scan summary\n  XSS in template (High severity)\ndone", trigger |-> TRUE],
      [text |-> "Raw SQL is built from user input", trigger |-> TRUE] }

\* the quality scores, in units of 1 / ScoreScale of a point; Absent for a
\* report without one
ScoreScale == 100000
ScoreCases == {Absent, 1, 300000, 499000, 500000, 690000, 700000, 950000, 1000000}

\* a score in hundredths of a point, rounded down
Hundredths(score) == IF score = Absent THEN Absent ELSE (score * 100) \div ScoreScale

\* the complexity grades a quality report names
GradeCases == {"", "A", "C", "D", "F", "CF"}

\* the test coverages, in tenths of a percent; Absent for notes without one
CoverageCases == {Absent, 0, 490, 500, 790, 800, 855, 950, 1000}

GradeText(grades) ==
    CASE grades = "" -> ""
      [] grades = "A" -> "Complexity Grade: A"
      [] grades = "C" -> "Complexity Grade: C"
      [] grades = "D" -> "Overall Grade D"
      [] grades = "F" -> "Complexity Grade: F"
      [] grades = "CF" -> "parse() Grade: C\nrun() Grade: F"

QualityText(score, grades) ==
    (IF score = Absent THEN ""
     ELSE "Pylint Score: " \o DecimalText([num |-> score, scale |-> ScoreScale]) \o "/10\n")
    \o GradeText(grades)

CoverageText(coverage) ==
    IF coverage = Absent THEN ""
    ELSE "Test coverage: " \o ToStr(coverage \div 10)
         \o (IF coverage % 10 = 0 THEN "" ELSE "." \o ToStr(coverage % 10)) \o "%"

AggregateReports ==
    /\ calc.pc = "input"
    /\ calc.fn = "aggregate_reports"
    /\ calc' = [calc EXCEPT !.pc = "done",
                            !.out = aggregate_reports(calc.in.security_report,
                                                      calc.in.quality_report,
                                                      calc.in.test_coverage_notes)]
    /\ UNCHANGED <<fs, fix, hist, pipe, wcf, dbg>>

InitAggregate ==
    /\ \E security \in SecurityCases, score \in ScoreCases, grades \in GradeCases,
          coverage \in CoverageCases :
          calc = [pc |-> "input", fn |-> "aggregate_reports",
                  in |-> [trigger |-> security.trigger, score |-> Hundredths(score),
                          grades |-> grades, coverage |-> coverage,
                          security_report |-> security.text,
                          quality_report |-> QualityText(score, grades),
                          test_coverage_notes |-> CoverageText(coverage)],
                  out |-> <<>>]
    /\ fs = [n \in Files |-> Absent]
    /\ hist = [initial |-> Absent, lastPassed |-> Absent]
    /\ fix = [p \in Procs |-> IdleFix]
    /\ pipe = IdlePipe
    /\ wcf = IdleWcf
    /\ dbg = IdleDbg

NextAggregate == AggregateReports

SpecAggregate == InitAggregate /\ [][NextAggregate]_vars

(***************************************************************************)
(* IterativeDebugger._analyze_error on its own: the verifier output is a    *)
(* traceback naming up to MaxWords exception types, one per line.           *)
(***************************************************************************)
MaxWords == 2

ErrorWords ==
    {"AssertionError", "AttributeError", "TypeError", "ValueError", "ImportError",
     "ModuleNotFoundError", "KeyError"}

WordSeqs == UNION {[1..n -> ErrorWords] : n \in 0..MaxWords}

\* the verifier output that names the exception types of words, in their order
RECURSIVE TracebackText(_)
TracebackText(words) ==
    IF words = <<>> THEN "1 failed in 0.02s"
    ELSE "E   " \o Head(words) \o ": boom\n" \o TracebackText(Tail(words))

\* the line pytest prints for an exception of type word
ELine(word) == "E   " \o word \o ": boom"

\* the two lines an interpreter traceback ends with
RaiseLines(word) == "    raise " \o word \o "('boom')\n" \o word \o ": boom"

RECURSIVE JoinLines(_)
JoinLines(lines) ==
    IF lines = <<>> THEN ""
    ELSE IF Len(lines) = 1 THEN Head(lines)
    ELSE Head(lines) \o "\n" \o JoinLines(Tail(lines))

\* the forms of a failed verifier result: the pytest lines with the summary
\* line, after a FAILED line, without the summary line, the end of
\* interpreter tracebacks, and a result without the key 'output'
Shapes == {"summary", "failed", "bare", "raise", "missing"}

ShapeText(words, shape) ==
    IF shape = "summary" THEN TracebackText(words)
    ELSE IF shape = "failed" THEN "test_ok FAILED\n" \o TracebackText(words)
    ELSE IF shape = "bare" THEN JoinLines([i \in 1..Len(words) |-> ELine(words[i])])
    ELSE JoinLines([i \in 1..Len(words) |-> RaiseLines(words[i])])

TestResultOf(words, shape) ==
    IF shape = "missing" THEN [success |-> FALSE]
    ELSE [success |-> FALSE, output |-> ShapeText(words, shape)]

AnalyzeError ==
    /\ calc.pc = "input"
    /\ calc.fn = "analyze_error"
    /\ calc' = [calc EXCEPT !.pc = "done",
                            !.out = analyze_error(calc.in.test_result)]
    /\ UNCHANGED <<fs, fix, hist, pipe, wcf, dbg>>

InitClassify ==
    /\ \E words \in WordSeqs, shape \in Shapes :
          /\ shape = "missing" => words = <<>>
          /\ calc = [pc |-> "input", fn |-> "analyze_error",
                     in |-> [words |-> words, shape |-> shape,
                             test_result |-> TestResultOf(words, shape),
                             output |-> GetOutput(TestResultOf(words, shape))],
                     out |-> <<>>]
    /\ fs = [n \in Files |-> Absent]
    /\ hist = [initial |-> Absent, lastPassed |-> Absent]
    /\ fix = [p \in Procs |-> IdleFix]
    /\ pipe = IdlePipe
    /\ wcf = IdleWcf
    /\ dbg = IdleDbg

NextClassify == AnalyzeError

SpecClassify == InitClassify /\ [][NextClassify]_vars


(***************************************************************************)
(* Claims.                                                                 *)
(***************************************************************************)
FixDone(p) == fix[p].pc = "done"

\* the verifier run of the call did not pass: pytest exited non-zero, ran
\* into the 120 second timeout or was not found
NonPassingRun(r) ==
    \/ r.kind = "ran" /\ r.rc # 0
    \/ r.kind = "timeout"
    \/ r.kind = "notfound"

PassingRun(r) == r.kind = "ran" /\ r.rc = 0

\* C1: atomicity of attempt_autonomous_fix.  When a call on an existing target
\* has returned, the target holds its content at call time after the
\* rollback, write-failed, critical and test-not-found outcomes, and exactly
\* the proposed content after the success outcome; it never holds a third
\* content, and the call ended with one of these outcomes.
C1_Atomicity ==
    \A p \in Procs :
        FixDone(p) /\ fix[p].orig # Absent =>
            /\ fix[p].result \in FixResults \ {"target_not_found"}
            /\ fix[p].result = "success" => fs[TARGET] = fix[p].code
            /\ fix[p].result # "success" => fs[TARGET] = fix[p].orig
            /\ fs[TARGET] \in {fix[p].orig, fix[p].code}

\* a rolled back call whose proposal differed from the target, and a kept one
C1_Witness ==
    /\ FixDone(1)
    /\ fix[1].result = "rollback"
    /\ fix[1].code # fix[1].orig
    /\ fix[1].wrote = "ok"
    /\ fs[TARGET] = fix[1].orig

\* C2: after any sequence of transactions (none overlapping, none meeting an
\* unexpected exception) the target holds its initial content or the proposal
\* of the most recent transaction whose pytest run passed (exit status 0).
C2_LastVerifiedContent ==
    (\A p \in Procs : fix[p].pc \in {"idle", "done"}) =>
        \/ fs[TARGET] = hist.initial
        \/ hist.lastPassed # Absent /\ fs[TARGET] = hist.lastPassed

\* C3: no residual backup.  After attempt_autonomous_fix returned, target.bak
\* does not exist; after RefactoringPipeline.execute returned, target.backup
\* does not exist, unless execute took no backup and the artifact is the one,
\* unchanged, that was there before the call.
C3_NoResidualBackup ==
    /\ \A p \in Procs : FixDone(p) => ~Exists(fs, BAK)
    /\ pipe.status # "none" =>
          \/ ~Exists(fs, BACKUP)
          \/ ~pipe.backupTaken /\ fs[BACKUP] = pipe.fs0[BACKUP]
    /\ pipe.status \in {"success", "rollback"} => ~Exists(fs, BACKUP)

\* execute committed after a test run, having taken its backup
C3_Witness ==
    /\ pipe.status = "success"
    /\ pipe.backupTaken
    /\ pipe.ran = 1
    /\ ~Exists(fs, BACKUP)

\* C4: every non-passing verification is rolled back.  When the pytest run of
\* a call exited non-zero, timed out or was not found (and no unexpected
\* exception occurred), the call returns the failure message that carries the
\* verifier output, the target holds its content at call time and the backup
\* is removed.
C4_NonPassingRolledBack ==
    \A p \in Procs :
        FixDone(p) /\ fix[p].run # NoRun /\ fix[p].raised = "none"
                   /\ NonPassingRun(fix[p].run) =>
            /\ fix[p].result = "rollback"
            /\ fs[TARGET] = fix[p].orig
            /\ ~Exists(fs, BAK)
            /\ Contains(fix[p].message, "FAILURE: Tests Failed")
            /\ Contains(fix[p].message, fix[p].test_output)

\* a failing run whose output also reports passed tests was rolled back
C4_Witness ==
    /\ FixDone(1)
    /\ fix[1].run # NoRun
    /\ fix[1].raised = "none"
    /\ fix[1].run.kind = "ran" /\ fix[1].run.rc # 0
    /\ Contains(fix[1].run.stdout, "1 passed")
    /\ fix[1].code # fix[1].orig
    /\ fix[1].result = "rollback"

\* C5: a passing verification is always kept.  When the pytest run of a call
\* exited with status 0 (and no unexpected exception occurred), the proposed
\* content stays on the target, the backup is deleted and the success result
\* is returned, whatever else the output contains.
C5_PassingKept ==
    \A p \in Procs :
        FixDone(p) /\ fix[p].run # NoRun /\ fix[p].raised = "none"
                   /\ PassingRun(fix[p].run) =>
            /\ fix[p].result = "success"
            /\ fs[TARGET] = fix[p].code
            /\ ~Exists(fs, BAK)

\* C7: target not found.  A call of attempt_autonomous_fix or of
\* RefactoringPipeline.execute on a missing target returns its error outcome
\* ('File not found' for the pipeline) and leaves every file as it was: no
\* backup artifact, no write, no verifier run.
C7_TargetNotFound ==
    /\ \A p \in Procs :
          FixDone(p) /\ fix[p].orig = Absent =>
              /\ fix[p].result = "target_not_found"
              /\ fix[p].message = TargetNotFoundMsg
              /\ fs = fix[p].fs0
              /\ ~fix[p].backup_path
              /\ fix[p].wrote = "no"
              /\ fix[p].ran = 0
    /\ pipe.status # "none" /\ pipe.fs0[TARGET] = Absent =>
          /\ pipe.status = "error"
          /\ pipe.message = "File not found"
          /\ fs = pipe.fs0
          /\ ~pipe.backupTaken
          /\ pipe.ran = 0
          /\ pipe.log = <<>>

\* execute returned on a missing target
C7_Witness ==
    /\ pipe.status = "error"
    /\ pipe.fs0[TARGET] = Absent
    /\ ~Exists(fs, TARGET)

\* C8: emergency restore.  When a call met an unexpected exception, it
\* returns the critical (attempt_autonomous_fix) or error (execute) result;
\* if its backup had been taken and was there, the target holds its content
\* at call time and the backup is consumed; if no backup artifact was there,
\* the target holds the content it had when the exception was raised.
C8_EmergencyRestore ==
    /\ \A p \in Procs :
          FixDone(p) /\ fix[p].raised # "none" =>
              /\ fix[p].result = "critical"
              /\ fix[p].bakAtRaise =>
                    fs[TARGET] = fix[p].orig /\ ~Exists(fs, BAK)
              /\ ~fix[p].bakAtRaise => fs[TARGET] = fix[p].targetAtRaise
    /\ pipe.status # "none" /\ pipe.raised # "none" =>
          /\ pipe.status = "error"
          /\ pipe.backupTaken /\ pipe.backupAtRaise =>
                fs[TARGET] = pipe.fs0[TARGET] /\ ~Exists(fs, BACKUP)
          /\ ~pipe.backupAtRaise => fs[TARGET] = pipe.targetAtRaise

\* an exception after the verifier ran on a proposal that differs from the
\* original: the original is back
C8_Witness ==
    /\ FixDone(1)
    /\ fix[1].raised \in {"after_test", "decide"}
    /\ fix[1].bakAtRaise
    /\ fix[1].targetAtRaise = fix[1].code
    /\ fix[1].code # fix[1].orig
    /\ fs[TARGET] = fix[1].orig

\* the records this session appended
SessionRecords == SubSeq(dbg.attempts, dbg.base + 1, Len(dbg.attempts))

\* C9: early success.  A session that ends with status 'success' at attempt k
\* has 1 <= k <= max_retries, ran the verifier exactly k times and the fix
\* generator exactly k - 1 times and appended exactly k - 1 records, each of a
\* failed run; with k = 1 neither the fix generator nor the search ran.  A
\* passing verifier run ends the session at once.
C9_EarlySuccess ==
    /\ dbg.pc = "done" /\ dbg.status = "success" =>
          LET k == dbg.attempts_count
          IN  /\ 1 <= k /\ k <= dbg.max_retries
              /\ dbg.runs = k
              /\ dbg.fixes = k - 1
              /\ Len(SessionRecords) = k - 1
              /\ \A i \in 1..Len(SessionRecords) :
                    /\ ~SessionRecords[i].test_result.success
                    /\ SessionRecords[i].attempt_number = i
              /\ dbg.test_result.success
              /\ k = 1 => dbg.fixes = 0 /\ dbg.searches = 0
    /\ dbg.pc = "loop" => ~dbg.test_result.success
    /\ dbg.test_result.success => dbg.pc = "done" /\ dbg.status = "success"

\* success at the second attempt, after one fix
C9_Witness ==
    /\ dbg.pc = "done"
    /\ dbg.status = "success"
    /\ dbg.attempts_count = 2
    /\ dbg.fixes = 1
    /\ dbg.base = 0

\* C10: budget exhaustion.  A session with max_retries = N >= 1 whose
\* verifier never passes runs the verifier exactly N times, appends exactly N
\* records and returns 'max_retries' with attempts_count = N, and the target
\* holds its content from before the session; while the loop runs, fewer than
\* N runs have been made.
C10_BudgetExhaustion ==
    /\ dbg.pc = "done" /\ dbg.status = "max_retries" =>
          /\ dbg.max_retries >= 1
          /\ dbg.runs = dbg.max_retries
          /\ dbg.fixes = dbg.max_retries
          /\ Len(SessionRecords) = dbg.max_retries
          /\ dbg.attempts_count = dbg.max_retries
          /\ ~dbg.test_result.success
          /\ fs[TARGET] = dbg.target0
    /\ dbg.pc = "done" /\ dbg.max_retries >= 1 /\ ~dbg.test_result.success =>
          dbg.status = "max_retries"
    /\ dbg.pc = "loop" =>
          /\ dbg.runs = dbg.attempt_num - 1
          /\ dbg.runs < dbg.max_retries
          /\ fs[TARGET] = dbg.target0
    /\ dbg.pc = "search" =>
          /\ dbg.runs = dbg.attempt_num
          /\ dbg.runs <= dbg.max_retries
          /\ fs[TARGET] = dbg.target0

\* three failing runs exhaust a budget of three
C10_Witness ==
    /\ dbg.pc = "done"
    /\ dbg.status = "max_retries"
    /\ dbg.max_retries = 3
    /\ dbg.runs = 3
    /\ Len(dbg.attempts) = 3

\* C11: search threshold.  The search is not run in attempt 1 and the record
\* of attempt 1 holds no search result and a fix made without search context;
\* every failed attempt numbered 2 or more runs the search exactly once and
\* stores what it returned in its record.
C11_SearchThreshold ==
    /\ \A i \in 1..Len(dbg.attempts) :
          LET r == dbg.attempts[i]
          IN  /\ r.attempt_number = 1 =>
                    /\ r.search_results = None
                    /\ r.fix_applied.search_context = "Not used"
              /\ r.attempt_number >= 2 =>
                    /\ ~r.search_results.isNone
                    /\ r.search_results.text \in
                          {search_for_solution(ok, r.error_analysis, o).text :
                              ok \in BOOLEAN, o \in SearchOutcomes}
                    /\ r.fix_applied.search_context = "Used"
    /\ dbg.searches =
          Cardinality({i \in 1..Len(SessionRecords) : SessionRecords[i].attempt_number >= 2})
          + (IF dbg.pc = "search" THEN 1 ELSE 0)
    /\ dbg.pc = "search" => dbg.attempt_num >= 2
    /\ dbg.pc = "loop" /\ dbg.attempt_num = 1 => dbg.searches = 0

\* two failed attempts: the first without a search, the second with a search
\* whose import failed
C11_Witness ==
    /\ dbg.pc = "done"
    /\ Len(SessionRecords) = 2
    /\ dbg.searches = 1
    /\ SessionRecords[1].search_results.isNone
    /\ SessionRecords[2].search_results.text = "Search failed: " \o ImportErrorText

\* C12: retry budget configuration.  A session configured with
\* max_retries <= 0 ends with an error result, having run no verifier,
\* applied no fix and recorded no attempt.
C12_ConfigurationError ==
    dbg.pc = "done" /\ dbg.max_retries <= 0 =>
        /\ dbg.status = "error"
        /\ dbg.runs = 0
        /\ dbg.fixes = 0
        /\ Len(SessionRecords) = 0

\* C13: termination of the repair loop.  Whatever the verifier does, a session
\* with max_retries = N >= 1 makes at most N verifier runs and at most N fix
\* applications, ends in one of the statuses success, max_retries and error,
\* the attempt number grows by one from an iteration to the next, and a
\* started loop reaches its return.
C13_Termination ==
    /\ [](dbg.max_retries >= 1 =>
            /\ dbg.runs <= dbg.max_retries
            /\ dbg.fixes <= dbg.max_retries
            /\ dbg.pc = "done" => dbg.status \in {"success", "max_retries", "error"}
            /\ dbg.pc = "loop" => dbg.status = "none" /\ dbg.attempt_num = dbg.runs + 1
            /\ dbg.pc = "search" => dbg.status = "none" /\ dbg.attempt_num = dbg.runs)
    /\ [][/\ dbg.pc \in {"loop", "search"} /\ dbg'.pc = "loop" /\ dbg' # dbg =>
               dbg'.attempt_num = dbg.attempt_num + 1
          /\ dbg.pc = "loop" /\ dbg'.pc = "search" =>
               dbg'.attempt_num = dbg.attempt_num]_vars
    /\ (dbg.pc \in {"loop", "search"} ~> dbg.pc = "done")

\* a session of budget two that passes at its second run
C13_Witness ==
    /\ dbg.pc = "done"
    /\ dbg.max_retries = 2
    /\ dbg.runs = 2
    /\ dbg.status = "success"

\* C14: append-only history within a session.  Every failed verifier run
\* appends exactly one record; the records already appended stay as they are,
\* in their order, through later iterations and the return; the i-th record of
\* the session has attempt_number i; the result's attempts hold all of them.
C14_AppendOnlyHistory ==
    /\ [](/\ Len(SessionRecords) = dbg.fixes
          /\ \A i \in 1..Len(SessionRecords) : SessionRecords[i].attempt_number = i
          /\ dbg.pc = "loop" => Len(SessionRecords) = dbg.runs
          /\ dbg.pc = "search" => Len(SessionRecords) = dbg.runs - 1
          /\ dbg.pc = "done" /\ dbg.status = "max_retries" =>
                Len(SessionRecords) = dbg.attempts_count)
    /\ [][dbg.pc \in {"loop", "search", "done"} /\ dbg'.pc \in {"loop", "search", "done"} =>
            /\ Len(dbg.attempts) <= Len(dbg'.attempts)
            /\ SubSeq(dbg'.attempts, 1, Len(dbg.attempts)) = dbg.attempts
            /\ Len(dbg'.attempts) =
                  IF \/ dbg.pc = "search" /\ dbg'.pc # "search"
                     \/ /\ dbg.pc = "loop" /\ dbg'.pc # "search"
                        /\ dbg'.runs = dbg.runs + 1 /\ ~dbg'.test_result.success
                  THEN Len(dbg.attempts) + 1
                  ELSE Len(dbg.attempts)]_vars

\* the loop is at its third attempt with the records of the first two
C14_Witness ==
    /\ dbg.pc = "loop"
    /\ dbg.attempt_num = 3
    /\ Len(SessionRecords) = 2
    /\ SessionRecords[1].attempt_number = 1
    /\ SessionRecords[2].attempt_number = 2

\* C15: every fix is re-verified.  A session returns 'max_retries' only after
\* a verifier run that followed its last fix application, so it has made more
\* verifier runs than fix applications.
C15_EveryFixReverified ==
    dbg.pc = "done" /\ dbg.status = "max_retries" => dbg.runs > dbg.fixes

\* the categories of _analyze_error, highest priority first
Priority == <<"AssertionError", "AttributeError", "TypeError", "ValueError", "ImportError">>

\* the category an exception type counts for
CategoryOf(word) == IF word = "ModuleNotFoundError" THEN "ImportError" ELSE word

\* the categories whose keywords the words contain
CategoriesIn(words) ==
    {CategoryOf(words[i]) : i \in 1..Len(words)} \cap {Priority[k] : k \in 1..Len(Priority)}

\* C16: error classification by fixed priority.  The category is the one of
\* highest priority (AssertionError, AttributeError, TypeError, ValueError,
\* ImportError, with ModuleNotFoundError counting as ImportError) among those
\* whose keyword occurs in the verifier output, wherever the keywords occur;
\* with the keyword of exactly one category it is that category, and with
\* none it is Unknown.
C16_ClassificationPriority ==
    calc.pc = "done" /\ calc.fn = "analyze_error" =>
        LET present == CategoriesIn(calc.in.words)
        IN  /\ present = {} => calc.out.error_type = "Unknown"
            /\ present # {} =>
                  \E k \in 1..Len(Priority) :
                      /\ Priority[k] \in present
                      /\ \A m \in 1..(k - 1) : Priority[m] \notin present
                      /\ calc.out.error_type = Priority[k]
            /\ \A c \in present : present = {c} => calc.out.error_type = c

\* ValueError is named before AttributeError and AttributeError is returned
C16_Witness ==
    /\ calc.pc = "done"
    /\ calc.fn = "analyze_error"
    /\ calc.in.words = <<"ValueError", "AttributeError">>
    /\ calc.out.error_type = "AttributeError"

Aggregated == calc.pc = "done" /\ calc.fn = "aggregate_reports"

\* the report from its FINAL RECOMMENDATION heading on
FinalSection(report) ==
    LET i == CHOOSE k \in 1..Len(report) :
                 /\ StartsAt(report, k, FinalMarker)
                 /\ \A m \in 1..(k - 1) : ~StartsAt(report, m, FinalMarker)
    IN  SubSeq(report, i, Len(report))

\* C17: verdict priority.  The final recommendation of the report names
\* exactly one of REJECT, CONDITIONAL and APPROVE: REJECT exactly when the
\* critical bucket is non-empty, CONDITIONAL exactly when it is empty and the
\* warning bucket is not, APPROVE exactly when both are empty; the suggestions
\* have no part in it.
C17_VerdictPriority ==
    Aggregated =>
        LET final == FinalSection(calc.out.report)
            reject == Contains(final, "REJECT")
            conditional == Contains(final, "CONDITIONAL")
            approve == Contains(final, "APPROVE")
        IN  /\ Cardinality({t \in {"REJECT", "CONDITIONAL", "APPROVE"} :
                                Contains(final, t)}) = 1
            /\ reject <=> calc.out.critical_issues # <<>>
            /\ conditional <=>
                  calc.out.critical_issues = <<>> /\ calc.out.warnings # <<>>
            /\ approve <=>
                  calc.out.critical_issues = <<>> /\ calc.out.warnings = <<>>

\* a warning and a suggestion without a critical issue: CONDITIONAL
C17_Witness ==
    /\ Aggregated
    /\ calc.out.critical_issues = <<>>
    /\ Len(calc.out.warnings) = 2
    /\ Len(calc.out.suggestions) = 1
    /\ Contains(FinalSection(calc.out.report), "CONDITIONAL APPROVAL")

\* SECURITY, QUALITY or TESTING: the label of a bucket item
KindOf(item) ==
    IF Contains(item, " SECURITY: ") THEN "SECURITY"
    ELSE IF Contains(item, " QUALITY: ") THEN "QUALITY"
    ELSE IF Contains(item, " TESTING: ") THEN "TESTING"
    ELSE "none"

KindsOf(items) == [i \in 1..Len(items) |-> KindOf(items[i])]

If(cond, kind) == IF cond THEN <<kind>> ELSE <<>>

\* C18: bucketing rules.  A security text with a trigger word adds one
\* security item to critical; a score below 5.0 adds a critical quality item
\* and a score in [5.0, 7.0) a warning; Grade F adds a critical item, otherwise
\* Grade D a warning, otherwise Grade C a suggestion; coverage below 50% adds
\* a critical testing item, coverage from 50% to below 80% a warning and
\* coverage of 80% or more a suggestion; nothing else is added, and inputs
\* with no trigger, no grade worse than C, a score of 7.0 or more and
\* coverage of 80% or more give APPROVE with no critical section.
C18_BucketingRules ==
    Aggregated =>
        LET in == calc.in
            hasScore == in.score # Absent
            hasCov == in.coverage # Absent
            gradeF == Contains(in.grades, "F")
            gradeD == Contains(in.grades, "D")
            gradeC == Contains(in.grades, "C")
        IN  /\ KindsOf(calc.out.critical_issues) =
                  If(in.trigger, "SECURITY")
                  \o If(hasScore /\ in.score < 500, "QUALITY")
                  \o If(gradeF, "QUALITY")
                  \o If(hasCov /\ in.coverage < 500, "TESTING")
            /\ KindsOf(calc.out.warnings) =
                  If(hasScore /\ 500 <= in.score /\ in.score < 700, "QUALITY")
                  \o If(~gradeF /\ gradeD, "QUALITY")
                  \o If(hasCov /\ 500 <= in.coverage /\ in.coverage < 800, "TESTING")
            /\ KindsOf(calc.out.suggestions) =
                  If(~gradeF /\ ~gradeD /\ gradeC, "QUALITY")
                  \o If(hasCov /\ in.coverage >= 800, "TESTING")
            /\ (/\ ~in.trigger
                /\ hasScore /\ in.score >= 700
                /\ ~gradeF /\ ~gradeD
                /\ hasCov /\ in.coverage >= 800) =>
                  /\ Contains(FinalSection(calc.out.report), "APPROVED FOR MERGE")
                  /\ ~Contains(calc.out.report, "CRITICAL ISSUES")

\* C19: RefactoringPipeline.execute keeps changes only after a passing test
\* run.  Status 'success' is returned only when the test suite was executed
\* and passed; when the run fails or times out, or the runner or the tests
\* directory is not found, the file holds its content from before the call
\* and status 'rollback' is returned.
C19_KeptOnlyAfterPassingRun ==
    /\ pipe.status = "success" =>
          pipe.ran = 1 /\ pipe.test.success /\ ~pipe.test.skipped
    /\ pipe.status \in {"success", "rollback"} /\ (pipe.ran = 0 \/ ~pipe.test.success) =>
          pipe.status = "rollback" /\ fs[TARGET] = pipe.fs0[TARGET]

\* C20: verifier unavailability is never an unflagged success.  When
\* execute returns 'success' without a test run (no tests directory, or
\* pytest not found), its test results and the test entry of its log carry
\* the skipped flag; a success without the flag had a test run; with pytest
\* not found attempt_autonomous_fix rolls back and reports the failure, and
\* the debugger's verifier reports a failed run.
C20_UnavailabilityFlagged ==
    /\ pipe.status = "success" /\ pipe.ran = 0 =>
          /\ pipe.test.skipped
          /\ pipe.log # <<>>
          /\ pipe.log[Len(pipe.log)].step = "test"
          /\ pipe.log[Len(pipe.log)].skipped
    /\ pipe.status = "success" /\ ~pipe.test.skipped => pipe.ran = 1
    /\ \A p \in Procs :
          FixDone(p) /\ fix[p].run.kind = "notfound" /\ fix[p].raised = "none" =>
              /\ fix[p].result = "rollback"
              /\ fs[TARGET] = fix[p].orig
              /\ Contains(fix[p].message, "FAILURE: Tests Failed")
              /\ Contains(fix[p].message, "pytest not found")
    /\ \A run \in PytestRuns : \A importOk \in BOOLEAN :
          run.kind = "notfound" \/ ~importOk => ~dbg_run_tests(importOk, run).success

\* execute returned success with the tests skipped and the flag set
C20_Witness ==
    /\ pipe.status = "success"
    /\ pipe.ran = 0
    /\ pipe.test.skipped
    /\ pipe.backupTaken
    /\ Len(pipe.log) = 4

\* a verifier run met a fault: its output is one of the error texts
FaultOutput(output) ==
    \/ Contains(output, "Error running tests: ")
    \/ Contains(output, "Error: pytest execution timed out after 120 seconds")
    \/ Contains(output, "Error: pytest not found")
    \/ Contains(output, "Error running pytest: ")

\* C21: no single attempt's failure is fatal.  When in attempt k < max_retries
\* the verifier run raises, times out or finds no runner, or the search fails,
\* the loop appends the record of attempt k and goes on to attempt k + 1; a
\* session ends only with a passing verifier run or with its budget used up.
C21_AttemptFailureNotFatal ==
    /\ [][dbg.pc = "loop" /\ dbg'.runs = dbg.runs + 1 /\ ~dbg'.test_result.success
            /\ dbg.attempt_num < dbg.max_retries =>
            \/ /\ dbg'.pc = "search"
               /\ dbg'.attempt_num = dbg.attempt_num
               /\ dbg'.attempts = dbg.attempts
            \/ /\ dbg'.pc = "loop"
               /\ dbg'.attempt_num = dbg.attempt_num + 1
               /\ Len(dbg'.attempts) = Len(dbg.attempts) + 1
               /\ dbg'.attempts[Len(dbg'.attempts)].attempt_number = dbg.attempt_num
               /\ dbg'.attempts[Len(dbg'.attempts)].test_result = dbg'.test_result]_vars
    /\ [][dbg.pc = "search" /\ dbg' # dbg /\ dbg.attempt_num < dbg.max_retries =>
            /\ dbg'.pc = "loop"
            /\ dbg'.attempt_num = dbg.attempt_num + 1
            /\ Len(dbg'.attempts) = Len(dbg.attempts) + 1
            /\ dbg'.attempts[Len(dbg'.attempts)].attempt_number = dbg.attempt_num
            /\ dbg'.attempts[Len(dbg'.attempts)].test_result = dbg.test_result
            /\ ~dbg'.attempts[Len(dbg'.attempts)].search_results.isNone]_vars
    /\ [](dbg.pc = "done" /\ dbg.max_retries >= 1 =>
            \/ dbg.status = "success" /\ dbg.test_result.success
            \/ dbg.status = "max_retries" /\ dbg.runs = dbg.max_retries)
    /\ [](\A i \in 1..Len(dbg.attempts) : FaultOutput(dbg.attempts[i].test_result.output))

\* the first run timed out, the second found no runner and its search had no
\* package to search with, and the loop is at its third attempt
C21_Witness ==
    /\ dbg.pc = "loop"
    /\ dbg.attempt_num = 3
    /\ Len(dbg.attempts) = 2
    /\ Contains(dbg.attempts[1].test_result.output, "timed out")
    /\ Contains(dbg.attempts[2].test_result.output, "Error: pytest not found")
    /\ Contains(dbg.attempts[2].search_results.text, "googlesearch-python not installed")

\* C22: cancellation between attempts.  Once cancellation has been requested,
\* the next step of the loop starts no verifier run and no fix application and
\* ends the session, with the attempt history recorded so far.
C22_CancellationBetweenAttempts ==
    [][dbg.pc \in {"loop", "search"} /\ dbg.cancel =>
          /\ dbg'.runs = dbg.runs
          /\ dbg'.fixes = dbg.fixes
          /\ dbg'.pc = "done"
          /\ dbg'.attempts = dbg.attempts]_vars

\* C23: backup / rollback round trip of RefactoringPipeline.  For a file of
\* content c, _create_backup leaves a backup artifact of content c, which
\* stays so while the file is overwritten; _rollback then leaves the file
\* with content c and no backup artifact; _rollback without a backup
\* artifact changes no file.
C23_BackupRollbackRoundTrip ==
    calc.fn = "round_trip" =>
        /\ calc.pc \in {"backed", "overwritten"} => fs[BACKUP] = calc.in.c
        /\ calc.pc = "done" /\ calc.out.after \in {"backed", "overwritten"} =>
              /\ fs[TARGET] = calc.in.c
              /\ ~Exists(fs, BACKUP)
        /\ calc.pc = "done" /\ ~Exists(calc.out.before, BACKUP) => fs = calc.out.before

\* the file was overwritten with other content, then rolled back
C23_Witness ==
    /\ calc.fn = "round_trip"
    /\ calc.pc = "done"
    /\ calc.out.after = "overwritten"
    /\ Exists(calc.out.before, TARGET)
    /\ calc.out.before[TARGET] # calc.in.c
    /\ fs[TARGET] = calc.in.c

Classified == calc.pc = "done" /\ calc.fn = "analyze_error"

KnownCategories == {Priority[k] : k \in 1..Len(Priority)}

\* the place of a category in the priority order
Rank(category) == CHOOSE k \in 1..Len(Priority) : Priority[k] = category

\* the indices of the words that are keywords of a category
KnownAt(words) == {i \in 1..Len(words) : CategoryOf(words[i]) \in KnownCategories}

\* the original statement of C24: the category is the one of the keyword that
\* occurs first, leftmost, in the verifier output
C24_LeftmostKeywordWins ==
    Classified /\ KnownAt(calc.in.words) # {} =>
        LET first == CHOOSE i \in KnownAt(calc.in.words) :
                         \A j \in KnownAt(calc.in.words) : i <= j
        IN  calc.out.error_type = CategoryOf(calc.in.words[first])

\* C24 as amended: the position of a keyword in the verifier output has no
\* part in the classification.  The category returned is one whose keyword
\* occurs in the output, and no keyword of a category earlier in the priority
\* order occurs anywhere in the output, before or after it; so for an output
\* in which TypeError occurs before AssertionError the category is
\* AssertionError.
C24_PositionIndependent ==
    Classified /\ KnownAt(calc.in.words) # {} =>
        /\ calc.out.error_type \in KnownCategories
        /\ \E i \in KnownAt(calc.in.words) :
              CategoryOf(calc.in.words[i]) = calc.out.error_type
        /\ \A i \in KnownAt(calc.in.words) :
              Rank(calc.out.error_type) <= Rank(CategoryOf(calc.in.words[i]))
        /\ calc.in.words = <<"TypeError", "AssertionError">> =>
              calc.out.error_type = "AssertionError"

\* TypeError occurs before AssertionError and AssertionError is returned
C24_Witness ==
    /\ Classified
    /\ calc.in.words = <<"TypeError", "AssertionError">>
    /\ calc.out.error_type = "AssertionError"

\* the excerpt of the result formed from words in the given shape: the first
\* line that holds 'Error' or 'FAILED' and the line after it, each without
\* its surrounding whitespace
ExpectedExcerpt(words, shape) ==
    IF shape = "failed"
    THEN "test_ok FAILED\n" \o (IF words = <<>> THEN "1 failed in 0.02s" ELSE ELine(words[1]))
    ELSE IF words = <<>> THEN ""
    ELSE IF shape = "summary"
    THEN ELine(words[1]) \o "\n" \o (IF Len(words) >= 2 THEN ELine(words[2])
                                      ELSE "1 failed in 0.02s")
    ELSE IF shape = "bare"
    THEN ELine(words[1]) \o (IF Len(words) >= 2 THEN "\n" \o ELine(words[2]) ELSE "")
    ELSE "raise " \o words[1] \o "('boom')\n" \o words[1] \o ": boom"

HasFailureToken(output) == Contains(output, "Error") \/ Contains(output, "FAILED")

\* the original statement of C25: without any of the five category keywords
\* the result is Unknown with an empty excerpt, otherwise the excerpt is the
\* first line with a failure-indicating token and the line after it
C25_UnknownMeansEmptyExcerpt ==
    Classified =>
        IF KnownAt(calc.in.words) = {}
        THEN calc.out.error_type = "Unknown" /\ calc.out.error_message = ""
        ELSE calc.out.error_message = ExpectedExcerpt(calc.in.words, calc.in.shape)

\* C25 as amended: the classifier is total.  Every verifier result, one
\* without output text included, gets a classification; when the output holds
\* none of the five category keywords the category is Unknown; the excerpt is
\* empty exactly when no line of the output holds a failure-indicating token
\* ('Error' or 'FAILED'), whatever the category, and otherwise it is the
\* first such line and the one line after it when there is one, each without
\* its surrounding whitespace.
C25_TotalClassifier ==
    Classified =>
        /\ DOMAIN calc.out = {"error_type", "error_message"}
        /\ calc.out.error_type \in KnownCategories \cup {"Unknown"}
        /\ KnownAt(calc.in.words) = {} => calc.out.error_type = "Unknown"
        /\ calc.out.error_message = "" <=> ~HasFailureToken(calc.in.output)
        /\ calc.out.error_message = ExpectedExcerpt(calc.in.words, calc.in.shape)
        /\ calc.in.shape = "missing" =>
              calc.out = [error_type |-> "Unknown", error_message |-> ""]

\* an output without category keyword classified Unknown with an excerpt
C25_Witness ==
    /\ Classified
    /\ calc.in.words = <<"KeyError">>
    /\ calc.in.shape = "summary"
    /\ calc.out.error_type = "Unknown"
    /\ calc.out.error_message = "E   KeyError: boom\n1 failed in 0.02s"

\* "attempts": self.attempts in the two return statements: the result holds
\* the list object of the instance, not a copy of it
ReportedAttempts == dbg.attempts

\* C26: the attempts sequence a returned result reports never changes.  In a
\* run that follows another on the same instance (dbg.base is the length the
\* earlier result reported), the sequence of the earlier result still has
\* that length, and what the later run reports when it returns is its own
\* records only, numbered from 1.
C26_HistoryReadOnly ==
    dbg.base > 0 =>
        /\ dbg.pc = "loop" => Len(ReportedAttempts) = dbg.base
        /\ dbg.pc = "done" /\ dbg.status \in {"success", "max_retries"} =>
              /\ ReportedAttempts = SessionRecords
              /\ \A i \in 1..Len(ReportedAttempts) :
                    ReportedAttempts[i].attempt_number = i

\* the head of the text run_pytest gives for a run that exited with status 0
ExitZeroHead ==
    "===== PYTEST EXECUTION =====\n"
    \o "Command: pytest " \o DbgTestFile \o " -v --tb=short\n"
    \o "Exit Code: 0\n"

\* C27: the repair loop reports success only for a genuinely passing run.
\* When debug_until_fixed has returned status 'success', the most recent
\* pytest run exited with status 0, whatever text its output holds.
C27_SuccessOnlyForExitZero ==
    dbg.pc = "done" /\ dbg.status = "success" =>
        /\ Len(dbg.test_result.output) >= Len(ExitZeroHead)
        /\ SubSeq(dbg.test_result.output, 1, Len(ExitZeroHead)) = ExitZeroHead

\* C29: a transaction restores only from its own backup.  After a call of
\* execute that did not reach its own backup step (an error during analysis,
\* a missing file) or that returned 'skipped', the target holds the content
\* it had when execute was called, whatever backup artifact was lying there.
C29_RestoresOnlyOwnBackup ==
    pipe.status # "none" =>
        /\ ~pipe.backupTaken => fs[TARGET] = pipe.fs0[TARGET]
        /\ pipe.status = "skipped" => fs = pipe.fs0

\* the path names a file in the project directory or below it
InsideProject(file_path) ==
    abspath(file_path) = BaseDir \/ startswith(abspath(file_path), BaseDir \o "/")

\* C30: write_code_file captures the backup before it overwrites.  After a
\* call that wrote an existing file inside the project directory, the backup
\* artifact holds the content the file had right before the write and the
\* file holds the new content; a call with a path outside the project
\* directory is rejected and changes no file.
C30_BackupBeforeOverwrite ==
    wcf.result # "none" =>
        LET file == FileAt(abspath(wcf.path))
        IN  /\ InsideProject(wcf.path) /\ wcf.result = "ok" /\ Exists(wcf.fs0, file) =>
                  /\ wcf.backup_created
                  /\ fs[BackupOf(file)] = wcf.fs0[file]
                  /\ fs[file] = wcf.content
            /\ ~InsideProject(wcf.path) =>
                  /\ wcf.result = "denied"
                  /\ fs = wcf.fs0

\* the proposals of the calls whose pytest run exited with status 0
PassedContents == {fix[p].code : p \in {q \in Procs : PassingRun(fix[q].run)}}

BothReturned == \A p \in Procs : FixDone(p)

\* C28: the safety guarantees depend on external serialisation.  When the two
\* transactions ran one after the other and both have returned, the target
\* holds the content it had before the first or a proposal whose verification
\* passed.  (That an overlap reaches a state outside this set is the witness.)
C28_SerialTransactionsSafe ==
    BothReturned /\ ~hist.overlapped =>
        fs[TARGET] \in {hist.initial} \cup PassedContents

\* two overlapping transactions have returned, no verification passed, and
\* the target holds a proposal instead of its initial content
C28_Witness ==
    /\ BothReturned
    /\ hist.overlapped
    /\ PassedContents = {}
    /\ \A p \in Procs : fix[p].ran = 1
    /\ fs[TARGET] # hist.initial
    /\ fs[TARGET] \in {fix[p].code : p \in Procs}

====
